---- MODULE Spec2Model ----
(***************************************************************************)
(* Command-sequence decoding and code synthesis of the MDSS DSI panel      *)
(* driver generator: panel.py (CommandSequence), mipi.py (Transaction,     *)
(* DCSCommand, the _generate_* strategies), driver.py (generate_driver)    *)
(* and lmdpdg.py (generate).                                               *)
(*                                                                         *)
(* Bytes are integers 0..255.  Generated text is kept as the structure the *)
(* code formats: a statement is a record naming the call or macro and the  *)
(* list of argument literals; a literal is a record (hex number of a given *)
(* byte width, or an identifier).  Python exceptions are modelled by their *)
(* class name in the variable err.                                         *)
(***************************************************************************)
EXTENDS Integers, Sequences, FiniteSets, TLC

(* ------------------------------ bounds --------------------------------- *)

\* Longest property (on plus off, in bytes) built from the small frames.
MaxBufLen == 16
\* Most bytes missing at the end of the last property.
MaxCut == 2
\* Payload length of the one frame whose length needs both length bytes.
WideLen == 256

Min(a, b) == IF a < b THEN a ELSE b

\* Most argument bytes behind the command byte of a matcher input.
MaxArgBytes == 5

(* ----------------------------- literals -------------------------------- *)

\* mipi.py _hex_fill: i printed as hex, zero-filled to size bytes.
hex_fill(i, size) == [k |-> "hex", v |-> i, size |-> size, name |-> ""]

\* An identifier printed as is ('dsi', MIPI_DCS_..., MIPI_DSI_DCS_TEAR_MODE_...).
Ident(n) == [k |-> "id", v |-> 0, size |-> 0, name |-> n]

\* mipi.py _get_params_hex: one hex literal per byte.
get_params_hex(b) == [i \in 1..Len(b) |-> hex_fill(b[i], 1)]

\* int.from_bytes(b, byteorder) for the two byte orders.
RECURSIVE from_bytes_big(_)
from_bytes_big(b) ==
    IF b = <<>> THEN 0
    ELSE from_bytes_big(SubSeq(b, 1, Len(b) - 1)) * 256 + b[Len(b)]

RECURSIVE from_bytes_little(_)
from_bytes_little(b) ==
    IF b = <<>> THEN 0
    ELSE b[1] + 256 * from_bytes_little(Tail(b))

\* Variant of from_bytes: the byte orders taken for each other.
from_bytes_swapped(b, byteorder) ==
    IF byteorder = "big" THEN from_bytes_little(b) ELSE from_bytes_big(b)

\* int.from_bytes(b, byteorder=byteorder).
from_bytes(b, byteorder) ==
    IF byteorder = "big" THEN from_bytes_big(b) ELSE from_bytes_little(b)

\* mipi.py _get_params_int(size, byteorder): fewer bytes than size give one
\* literal; otherwise zip(*[itr] * size) yields the complete groups of size
\* bytes and drops an incomplete last group.
get_params_int(size, byteorder, b) ==
    IF Len(b) < size
    THEN << hex_fill(from_bytes(b, byteorder), size) >>
    ELSE [g \in 1..(Len(b) \div size) |->
            hex_fill(from_bytes(SubSeq(b, (g - 1) * size + 1, g * size), byteorder), size)]

\* mipi.py TearMode: the two members by value.
TearMode == (0 :> "VBLANK") @@ (1 :> "VHBLANK")

\* mipi.py TearMode.get_params: TearMode(b[0]).identifier; b[0] of an empty
\* b is an IndexError, a value that is no member a ValueError.
TearMode_get_params(b) ==
    IF b = <<>> THEN [exc |-> "IndexError", params |-> <<>>]
    ELSE IF b[1] \notin DOMAIN TearMode THEN [exc |-> "ValueError", params |-> <<>>]
    ELSE [exc |-> "None", params |-> << Ident("MIPI_DSI_DCS_TEAR_MODE_" \o TearMode[b[1]]) >>]

(* ------------------------- DCSCommand table ---------------------------- *)

\* One member of the DCSCommand enum: value, nargs as the tuple __new__ makes
\* of it, method ("" when None) and the parameter codec.
Dcs(value, name, nargs, method, codec) ==
    value :> [value |-> value, name |-> name, nargs |-> nargs,
              method |-> method, codec |-> codec]

DCSCommand ==
       Dcs(0,   "NOP", <<0>>, "mipi_dsi_dcs_nop", "hex")
    @@ Dcs(1,   "SOFT_RESET", <<0>>, "mipi_dsi_dcs_soft_reset", "hex")
    @@ Dcs(16,  "ENTER_SLEEP_MODE", <<0>>, "mipi_dsi_dcs_enter_sleep_mode", "hex")
    @@ Dcs(17,  "EXIT_SLEEP_MODE", <<0>>, "mipi_dsi_dcs_exit_sleep_mode", "hex")
    @@ Dcs(18,  "ENTER_PARTIAL_MODE", <<0>>, "", "hex")
    @@ Dcs(19,  "ENTER_NORMAL_MODE", <<0>>, "", "hex")
    @@ Dcs(32,  "EXIT_INVERT_MODE", <<0>>, "", "hex")
    @@ Dcs(33,  "ENTER_INVERT_MODE", <<0>>, "", "hex")
    @@ Dcs(38,  "SET_GAMMA_CURVE", <<1>>, "", "hex")
    @@ Dcs(40,  "SET_DISPLAY_OFF", <<0>>, "mipi_dsi_dcs_set_display_off", "hex")
    @@ Dcs(41,  "SET_DISPLAY_ON", <<0>>, "mipi_dsi_dcs_set_display_on", "hex")
    @@ Dcs(42,  "SET_COLUMN_ADDRESS", <<4>>, "mipi_dsi_dcs_set_column_address", "int2big")
    @@ Dcs(43,  "SET_PAGE_ADDRESS", <<4>>, "mipi_dsi_dcs_set_page_address", "int2big")
    @@ Dcs(44,  "WRITE_MEMORY_START", <<>>, "", "hex")
    @@ Dcs(45,  "WRITE_LUT", <<>>, "", "hex")
    @@ Dcs(46,  "READ_MEMORY_START", <<>>, "", "hex")
    @@ Dcs(48,  "SET_PARTIAL_ROWS", <<>>, "", "hex")
    @@ Dcs(49,  "SET_PARTIAL_COLUMNS", <<>>, "", "hex")
    @@ Dcs(51,  "SET_SCROLL_AREA", <<6>>, "", "hex")
    @@ Dcs(52,  "SET_TEAR_OFF", <<0>>, "mipi_dsi_dcs_set_tear_off", "hex")
    @@ Dcs(53,  "SET_TEAR_ON", <<1>>, "mipi_dsi_dcs_set_tear_on", "tear")
    @@ Dcs(54,  "SET_ADDRESS_MODE", <<1>>, "", "hex")
    @@ Dcs(55,  "SET_SCROLL_START", <<2>>, "", "hex")
    @@ Dcs(56,  "EXIT_IDLE_MODE", <<0>>, "", "hex")
    @@ Dcs(57,  "ENTER_IDLE_MODE", <<0>>, "", "hex")
    @@ Dcs(58,  "SET_PIXEL_FORMAT", <<1>>, "mipi_dsi_dcs_set_pixel_format", "hex")
    @@ Dcs(60,  "WRITE_MEMORY_CONTINUE", <<>>, "", "hex")
    @@ Dcs(61,  "SET_3D_CONTROL", <<>>, "", "hex")
    @@ Dcs(62,  "READ_MEMORY_CONTINUE", <<>>, "", "hex")
    @@ Dcs(64,  "SET_VSYNC_TIMING", <<>>, "", "hex")
    @@ Dcs(68,  "SET_TEAR_SCANLINE", <<2>>, "mipi_dsi_dcs_set_tear_scanline", "int2big")
    @@ Dcs(69,  "GET_SCANLINE", <<>>, "", "hex")
    @@ Dcs(81,  "SET_DISPLAY_BRIGHTNESS", <<1, 2>>, "mipi_dsi_dcs_set_display_brightness", "int2little")
    @@ Dcs(83,  "WRITE_CONTROL_DISPLAY", <<1>>, "", "hex")
    @@ Dcs(85,  "WRITE_POWER_SAVE", <<1>>, "", "hex")
    @@ Dcs(94,  "SET_CABC_MIN_BRIGHTNESS", <<>>, "", "hex")
    @@ Dcs(161, "READ_DDB_START", <<>>, "", "hex")
    @@ Dcs(162, "READ_PPS_START", <<>>, "", "hex")
    @@ Dcs(168, "READ_DDB_CONTINUE", <<>>, "", "hex")
    @@ Dcs(169, "READ_PPS_CONTINUE", <<>>, "", "hex")

\* mipi.py DCSCommand._DUMB_ALLOWED, by value.
DUMB_ALLOWED == {16, 17, 41, 40}

\* The codec attached to a member, applied to the argument bytes.
DCS_codec(dcs, b) ==
    CASE dcs.codec = "hex"        -> [exc |-> "None", params |-> get_params_hex(b)]
      [] dcs.codec = "int2big"    -> [exc |-> "None", params |-> get_params_int(2, "big", b)]
      [] dcs.codec = "int2little" -> [exc |-> "None", params |-> get_params_int(2, "little", b)]
      [] dcs.codec = "tear"       -> TearMode_get_params(b)

\* mipi.py DCSCommand.get_params: the codec's literals behind 'dsi'.
DCS_get_params(dcs, b) ==
    LET r == DCS_codec(dcs, b)
    IN  [exc |-> r.exc,
         params |-> IF r.exc = "None" THEN << Ident("dsi") >> \o r.params ELSE <<>>]

InTuple(x, t) == \E i \in 1..Len(t) : t[i] = x

(* ------------------------------ statements ----------------------------- *)

\* Command.generated before generate_driver has run (None).
NoStatement == [kind |-> "none", fn |-> "", args |-> <<>>, subject |-> ""]

\* mipi.py _generate_checked_call: ret = method(args); followed by the
\* if (ret < 0) { dev_err(dev, "Failed to <description>..."); return ret; }
\* block.  subject is the enum member whose description is printed.
generate_checked_call(method, args, subject) ==
    [kind |-> "checked_call", fn |-> method, args |-> args, subject |-> subject]

\* A one-line macro call wrap.join(macro + '(', ',', ');', params, force=2).
write_seq(macro, params) ==
    [kind |-> "write_seq", fn |-> macro, args |-> params, subject |-> ""]

\* A diagnostic printed by DCSCommand.find.
Warning(kind, name, n) == [kind |-> kind, name |-> name, n |-> n]

(* -------------------------- DCSCommand.find ---------------------------- *)

NoMatch(warn) == [exc |-> "None", found |-> FALSE, dcs |-> -1, warn |-> warn]

\* Variant of DCSCommand_find: the argument count is not compared.
DCSCommand_find_noarity(payload, dumb) ==
    IF payload = <<>> THEN [exc |-> "IndexError", found |-> FALSE, dcs |-> -1, warn |-> <<>>]
    ELSE IF payload[1] \notin DOMAIN DCSCommand THEN NoMatch(<<>>)
    ELSE LET dcs == DCSCommand[payload[1]]
             n   == Len(payload) - 1
             r   == DCS_get_params(dcs, Tail(payload))
         IN  IF dumb /\ dcs.value \notin DUMB_ALLOWED THEN NoMatch(<<>>)
             ELSE IF r.exc = "ValueError"
                  THEN NoMatch(<< Warning("invalid arguments", dcs.name, n) >>)
             ELSE IF r.exc # "None"
                  THEN [exc |-> r.exc, found |-> FALSE, dcs |-> -1, warn |-> <<>>]
             ELSE [exc |-> "None", found |-> TRUE, dcs |-> dcs.value, warn |-> <<>>]

\* Variant of DCSCommand_find: the payload length, command byte included, is
\* compared with nargs.
DCSCommand_find_offbyone(payload, dumb) ==
    IF payload = <<>> THEN [exc |-> "IndexError", found |-> FALSE, dcs |-> -1, warn |-> <<>>]
    ELSE IF payload[1] \notin DOMAIN DCSCommand THEN NoMatch(<<>>)
    ELSE LET dcs == DCSCommand[payload[1]]
             n   == Len(payload) - 1
             r   == DCS_get_params(dcs, Tail(payload))
         IN  IF dumb /\ dcs.value \notin DUMB_ALLOWED THEN NoMatch(<<>>)
             ELSE IF dcs.nargs # <<>> /\ ~InTuple(Len(payload), dcs.nargs)
                  THEN NoMatch(<< Warning("incorrect argument count", dcs.name, n) >>)
             ELSE IF r.exc = "ValueError"
                  THEN NoMatch(<< Warning("invalid arguments", dcs.name, n) >>)
             ELSE IF r.exc # "None"
                  THEN [exc |-> r.exc, found |-> FALSE, dcs |-> -1, warn |-> <<>>]
             ELSE [exc |-> "None", found |-> TRUE, dcs |-> dcs.value, warn |-> <<>>]

\* Variant of DCSCommand_find: the arguments are not parsed before the member
\* is returned.
DCSCommand_find_unparsed(payload, dumb) ==
    IF payload = <<>> THEN [exc |-> "IndexError", found |-> FALSE, dcs |-> -1, warn |-> <<>>]
    ELSE IF payload[1] \notin DOMAIN DCSCommand THEN NoMatch(<<>>)
    ELSE LET dcs == DCSCommand[payload[1]]
             n   == Len(payload) - 1
         IN  IF dumb /\ dcs.value \notin DUMB_ALLOWED THEN NoMatch(<<>>)
             ELSE IF dcs.nargs # <<>> /\ ~InTuple(n, dcs.nargs)
                  THEN NoMatch(<< Warning("incorrect argument count", dcs.name, n) >>)
             ELSE [exc |-> "None", found |-> TRUE, dcs |-> dcs.value, warn |-> <<>>]

\* Variant of DCSCommand_find: the dumb flag is not consulted.
DCSCommand_find_nodumb(payload, dumb) ==
    IF payload = <<>> THEN [exc |-> "IndexError", found |-> FALSE, dcs |-> -1, warn |-> <<>>]
    ELSE IF payload[1] \notin DOMAIN DCSCommand THEN NoMatch(<<>>)
    ELSE LET dcs == DCSCommand[payload[1]]
             n   == Len(payload) - 1
             r   == DCS_get_params(dcs, Tail(payload))
         IN  IF dcs.nargs # <<>> /\ ~InTuple(n, dcs.nargs)
                  THEN NoMatch(<< Warning("incorrect argument count", dcs.name, n) >>)
             ELSE IF r.exc = "ValueError"
                  THEN NoMatch(<< Warning("invalid arguments", dcs.name, n) >>)
             ELSE IF r.exc # "None"
                  THEN [exc |-> r.exc, found |-> FALSE, dcs |-> -1, warn |-> <<>>]
             ELSE [exc |-> "None", found |-> TRUE, dcs |-> dcs.value, warn |-> <<>>]

\* mipi.py DCSCommand.find.  DCSCommand(payload[0]) raises ValueError for a
\* byte that is no member (caught: None) and payload[0] raises IndexError
\* for an empty payload (not caught).
DCSCommand_find(payload, dumb) ==
    IF payload = <<>> THEN [exc |-> "IndexError", found |-> FALSE, dcs |-> -1, warn |-> <<>>]
    ELSE IF payload[1] \notin DOMAIN DCSCommand THEN NoMatch(<<>>)
    ELSE LET dcs == DCSCommand[payload[1]]
             n   == Len(payload) - 1
             r   == DCS_get_params(dcs, Tail(payload))
         IN  IF dumb /\ dcs.value \notin DUMB_ALLOWED THEN NoMatch(<<>>)
             ELSE IF dcs.nargs # <<>> /\ ~InTuple(n, dcs.nargs)
                  THEN NoMatch(<< Warning("incorrect argument count", dcs.name, n) >>)
             ELSE IF r.exc = "ValueError"
                  THEN NoMatch(<< Warning("invalid arguments", dcs.name, n) >>)
             ELSE IF r.exc # "None"
                  THEN [exc |-> r.exc, found |-> FALSE, dcs |-> -1, warn |-> <<>>]
             ELSE [exc |-> "None", found |-> TRUE, dcs |-> dcs.value, warn |-> <<>>]

(* ------------------------ synthesis strategies ------------------------- *)

\* What a strategy returns: the exception it raised ("None" when it returned),
\* the statement, and the diagnostics it printed.
Generated(text, warn) == [exc |-> "None", text |-> text, warn |-> warn]
Raised(exc, warn) == [exc |-> exc, text |-> NoStatement, warn |-> warn]

\* Variant of generate_generic_write: the command table is consulted and
\* a member's name stands for the first byte.
generate_generic_write_named(t, payload, options) ==
    LET f   == DCSCommand_find(payload, options.dumb_dcs)
        hex == get_params_hex(payload)
    IN  Generated(write_seq("dsi_generic_write_seq",
                            << Ident("dsi") >>
                            \o (IF f.exc = "None" /\ f.found
                                THEN << Ident("MIPI_DCS_" \o DCSCommand[f.dcs].name) >> \o Tail(hex)
                                ELSE hex)), <<>>)

\* mipi.py _generate_generic_write.
generate_generic_write(t, payload, options) ==
    Generated(write_seq("dsi_generic_write_seq", << Ident("dsi") >> \o get_params_hex(payload)), <<>>)

\* mipi.py _generate_dcs_write.
generate_dcs_write(t, payload, options) ==
    LET f == DCSCommand_find(payload, options.dumb_dcs)
    IN  IF f.exc # "None" THEN Raised(f.exc, f.warn)
        ELSE IF f.found /\ DCSCommand[f.dcs].method # ""
        THEN LET dcs == DCSCommand[f.dcs]
                 p   == DCS_get_params(dcs, Tail(payload))
             IN  IF p.exc # "None" THEN Raised(p.exc, f.warn)
                 ELSE Generated(generate_checked_call(dcs.method, p.params, dcs.name), f.warn)
        ELSE LET hex    == get_params_hex(payload)
                 params == IF f.found
                           THEN << Ident("MIPI_DCS_" \o DCSCommand[f.dcs].name) >> \o Tail(hex)
                           ELSE hex
             IN  Generated(write_seq("dsi_dcs_write_seq", << Ident("dsi") >> \o params), f.warn)

\* mipi.py _generate_peripheral.
generate_peripheral(t, payload, options) ==
    IF t.name = "TURN_ON_PERIPHERAL"
    THEN Generated(generate_checked_call("mipi_dsi_turn_on_peripheral", << Ident("dsi") >>, t.name), <<>>)
    ELSE IF t.name = "SHUTDOWN_PERIPHERAL"
    THEN Generated(generate_checked_call("mipi_dsi_shutdown_peripheral", << Ident("dsi") >>, t.name), <<>>)
    ELSE Raised("ValueError", <<>>)

\* mipi.py _generate_null_packet: a comment line.
generate_null_packet(t, payload, options) ==
    Generated([kind |-> "comment", fn |-> "", args |-> <<>>, subject |-> t.name], <<>>)

\* Variant of generate_fallback: a comment instead of the exception.
generate_fallback_stub(t, payload, options) ==
    Generated([kind |-> "comment", fn |-> "", args |-> <<>>, subject |-> t.name], <<>>)

\* mipi.py _generate_fallback: raise ValueError(t.name + ' is not supported').
generate_fallback(t, payload, options) ==
    Raised("ValueError", <<>>)

(* ------------------------- Transaction table --------------------------- *)

\* One member of the Transaction enum: value, max_args (default -1) and the
\* strategy (default _generate_fallback).
Tx(value, name, max_args, generate) ==
    value :> [value |-> value, name |-> name, max_args |-> max_args, generate |-> generate]

Transaction ==
       Tx(1, "V_SYNC_START", -1, "fallback")
    @@ Tx(17, "V_SYNC_END", -1, "fallback")
    @@ Tx(33, "H_SYNC_START", -1, "fallback")
    @@ Tx(49, "H_SYNC_END", -1, "fallback")
    @@ Tx(2, "COLOR_MODE_OFF", -1, "fallback")
    @@ Tx(18, "COLOR_MODE_ON", -1, "fallback")
    @@ Tx(34, "SHUTDOWN_PERIPHERAL", 0, "peripheral")
    @@ Tx(50, "TURN_ON_PERIPHERAL", 0, "peripheral")
    @@ Tx(3, "GENERIC_SHORT_WRITE_0_PARAM", 0, "generic_write")
    @@ Tx(19, "GENERIC_SHORT_WRITE_1_PARAM", 1, "generic_write")
    @@ Tx(35, "GENERIC_SHORT_WRITE_2_PARAM", 2, "generic_write")
    @@ Tx(4, "GENERIC_READ_REQUEST_0_PARAM", -1, "fallback")
    @@ Tx(20, "GENERIC_READ_REQUEST_1_PARAM", -1, "fallback")
    @@ Tx(36, "GENERIC_READ_REQUEST_2_PARAM", -1, "fallback")
    @@ Tx(5, "DCS_SHORT_WRITE", 0, "dcs_write")
    @@ Tx(21, "DCS_SHORT_WRITE_PARAM", 1, "dcs_write")
    @@ Tx(6, "DCS_READ", -1, "fallback")
    @@ Tx(7, "DCS_COMPRESSION_MODE", -1, "fallback")
    @@ Tx(10, "PPS_LONG_WRITE", -1, "fallback")
    @@ Tx(55, "SET_MAXIMUM_RETURN_PACKET_SIZE", -1, "fallback")
    @@ Tx(8, "END_OF_TRANSMISSION", -1, "fallback")
    @@ Tx(9, "NULL_PACKET", -1, "null_packet")
    @@ Tx(25, "BLANKING_PACKET", -1, "fallback")
    @@ Tx(41, "GENERIC_LONG_WRITE", -1, "generic_write")
    @@ Tx(57, "DCS_LONG_WRITE", -1, "dcs_write")
    @@ Tx(12, "LOOSELY_PACKED_PIXEL_STREAM_YCBCR20", -1, "fallback")
    @@ Tx(28, "PACKED_PIXEL_STREAM_YCBCR24", -1, "fallback")
    @@ Tx(44, "PACKED_PIXEL_STREAM_YCBCR16", -1, "fallback")
    @@ Tx(13, "PACKED_PIXEL_STREAM_30", -1, "fallback")
    @@ Tx(29, "PACKED_PIXEL_STREAM_36", -1, "fallback")
    @@ Tx(61, "PACKED_PIXEL_STREAM_YCBCR12", -1, "fallback")
    @@ Tx(14, "PACKED_PIXEL_STREAM_16", -1, "fallback")
    @@ Tx(30, "PACKED_PIXEL_STREAM_18", -1, "fallback")
    @@ Tx(46, "PIXEL_STREAM_3BYTE_18", -1, "fallback")
    @@ Tx(62, "PACKED_PIXEL_STREAM_24", -1, "fallback")

\* mipi.py Transaction.generate: dispatch to the member's strategy.
Transaction_generate(t, payload, options) ==
    CASE t.generate = "generic_write" -> generate_generic_write(t, payload, options)
      [] t.generate = "dcs_write"     -> generate_dcs_write(t, payload, options)
      [] t.generate = "peripheral"    -> generate_peripheral(t, payload, options)
      [] t.generate = "null_packet"   -> generate_null_packet(t, payload, options)
      [] t.generate = "fallback"      -> generate_fallback(t, payload, options)

(* ----------------------- generate_commands (driver.py) ----------------- *)

\* An empty line of a command function.
Blank == [kind |-> "blank", fn |-> "", args |-> <<>>, subject |-> ""]

\* A delay statement: the call and its integer arguments.
Delay(fn, args) == [kind |-> "delay", fn |-> fn, args |-> args, subject |-> ""]

\* Variant of msleep: the coarse sleep whatever the duration.
msleep_coarse(m) == Delay("msleep", << m >>)

\* driver.py msleep.
msleep(m) ==
    IF m >= 20
    THEN Delay("msleep", << m >>)
    ELSE LET u == m * 1000
         IN  Delay("usleep_range", << u, u + 1000 >>)

\* Variant of wait_emitted: the wait is not tested at all.
wait_emitted_always(c, options) == TRUE

\* Variant of wait_emitted: the threshold is not consulted.
wait_emitted_nothreshold(c, options) == c.wait # 0

\* driver.py generate_commands: if c.wait and c.wait > options.ignore_wait.
wait_emitted(c, options) == c.wait # 0 /\ c.wait > options.ignore_wait

\* '{' in c.generated: only the checked call has a block; literals are hex
\* numbers and identifiers, the comment has no brace.
has_block(s) == s.kind = "checked_call"

\* Variant of block_after: a delay counts as a block for the statement
\* behind it.
block_after_delay(c, options) == has_block(c.generated) \/ wait_emitted(c, options)

\* driver.py generate_commands: block = '{' in c.generated, for the next
\* iteration.
block_after(c, options) == has_block(c.generated)

\* driver.py generate_commands, the loop over cmd.seq: an empty line before
\* a statement that follows a block or has one, the statement, its delay.
RECURSIVE command_lines(_, _, _)
command_lines(seq, block, options) ==
    IF seq = <<>> THEN <<>>
    ELSE LET c == Head(seq)
         IN  (IF block \/ has_block(c.generated) THEN << Blank >> ELSE <<>>)
             \o << c.generated >>
             \o (IF wait_emitted(c, options) THEN << msleep(c.wait) >> ELSE <<>>)
             \o command_lines(Tail(seq), block_after(c, options), options)

\* An attribute no instance has been given yet, and one that holds v.
Unset == [set |-> FALSE, v |-> <<>>]
Held(v) == [set |-> TRUE, v |-> v]

\* cmd.generated read through an instance of CommandSequence: the
\* instance's attribute if it has one, else the attribute of the class
\* ("generated: str = ''").
attr_generated(inst, klass) == IF inst.set THEN inst.v ELSE klass

\* Variant of iadd_generated: the addition made in place on the object the
\* class holds, as += does on a list.
iadd_generated_inplace(inst, klass, text) ==
    [inst |-> Held(attr_generated(inst, klass) \o << text >>),
     klass |-> klass \o << text >>]

\* driver.py generate_driver: cmd.generated += c.generated; a str is
\* immutable, so the sum is a new object bound to the instance and the
\* class keeps its own.
iadd_generated(inst, klass, text) ==
    [inst |-> Held(attr_generated(inst, klass) \o << text >>), klass |-> klass]

\* Variant of declares: only the first statement of the text is looked at.
declares_first(text) == text # <<>> /\ text[1].kind = "checked_call"

\* driver.py generate_commands: '(dev, ' in cmd.generated, 'ret = ' in
\* cmd.generated; of the statements only the checked call has either.
declares(text) == \E i \in 1..Len(text) : text[i].kind = "checked_call"

\* driver.py generate_commands: the local variables declared and the lines
\* of the loop over cmd.seq; text is cmd.generated.
generate_commands(seq, text, options) ==
    [variables |-> << "dsi" >> \o (IF declares(text) THEN << "dev" >> ELSE <<>>)
                               \o (IF declares(text) THEN << "ret" >> ELSE <<>>),
     lines |-> command_lines(seq, TRUE, options)]

(* ------------------------------ reset pin ------------------------------ *)

\* generator.py GpioFlag.
ACTIVE_HIGH == 0
ACTIVE_LOW == 1

\* panel.py: list(zip(itr, itr)) over the uint32 values of
\* qcom,mdss-dsi-reset-sequence: pairs (state, sleep), a value left over
\* dropped.  An absent property gives None, which every test the code makes
\* of reset_seq treats as the empty list.
RECURSIVE zip_pairs(_)
zip_pairs(a) ==
    IF Len(a) < 2 THEN <<>>
    ELSE << << a[1], a[2] >> >> \o zip_pairs(SubSeq(a, 3, Len(a)))

\* options.gpios = {}.
NoGpios == [n \in {} |-> ACTIVE_HIGH]

\* Variant of reset_flag: the first pair decides.
reset_flag_first(seq) == IF seq[1][1] = 1 THEN ACTIVE_LOW ELSE ACTIVE_HIGH

\* driver.py generate_driver: active low if the last pair sets the pin to 1.
reset_flag(seq) == IF seq[Len(seq)][1] = 1 THEN ACTIVE_LOW ELSE ACTIVE_HIGH

\* driver.py generate_driver: options.gpios as it is when the file is
\* written (the backlight pin belongs to --backlight-gpio, which is not
\* given).
driver_gpios(seq) ==
    IF seq # <<>> THEN [n \in {"reset"} |-> reset_flag(seq)] ELSE NoGpios

\* A call of gpiod_set_value_cansleep(ctx->reset_gpio, state).
SetValue(state) == [kind |-> "set_value", fn |-> "gpiod_set_value_cansleep",
                    args |-> << state >>, subject |-> "reset_gpio"]

\* driver.py generate_reset: state = int(not bool(state)).
invert(state) == IF state = 0 THEN 1 ELSE 0

\* driver.py generate_reset, the loop over p.reset_seq.
RECURSIVE reset_body(_, _)
reset_body(seq, g) ==
    IF seq = <<>> THEN <<>>
    ELSE LET state == IF g["reset"] = ACTIVE_LOW THEN invert(seq[1][1]) ELSE seq[1][1]
             sleep == seq[1][2]
         IN  << SetValue(state) >>
             \o (IF sleep # 0 THEN << msleep(sleep) >> ELSE <<>>)
             \o reset_body(Tail(seq), g)

\* driver.py generate_reset: no function without a reset sequence.
generate_reset(seq, g) == IF seq = <<>> THEN <<>> ELSE reset_body(seq, g)

(* ------------------------------- wrap.py ------------------------------- *)

\* A str is the sequence of its characters, each a one-character string.
Tab == "\t"
Space == " "
Newline == "\n"

\* s.count(ch).
count(s, ch) == Cardinality({ i \in 1..Len(s) : s[i] = ch })

\* ch * n.
repeat(ch, n) == [i \in 1..n |-> ch]

\* wrap.py _width.
width(s) == Len(s) + count(s, Tab) * 7

\* glue.join(items).
RECURSIVE str_join(_, _)
str_join(glue, items) ==
    IF items = <<>> THEN <<>>
    ELSE IF Len(items) = 1 THEN items[1]
    ELSE items[1] \o glue \o str_join(glue, Tail(items))

\* Variant of indent_of: tabs only.
indent_of_tabs(align) == repeat(Tab, align \div 8)

\* wrap.py join: indent = '\t' * (align // 8) + ' ' * (align % 8).
indent_of(align) == repeat(Tab, align \div 8) \o repeat(Space, align % 8)

\* Variant of must_break: the forced index is not looked at.
must_break_unforced(force, i, line, item, sep, wrap) ==
    width(line) + Len(item) + Len(sep) > wrap

\* Variant of must_break: the length of the item is not added.
must_break_itemless(force, i, line, item, sep, wrap) ==
    force = i \/ width(line) + Len(sep) > wrap

\* wrap.py join: force == i or _width(line) + len(item) + len(sep) > wrap.
must_break(force, i, line, item, sep, wrap) ==
    force = i \/ width(line) + Len(item) + Len(sep) > wrap

\* wrap.py join, the loop from item i (counted from 0) on, and the return:
\* s is the text of the finished lines, prefix what the current line starts
\* with, line its items so far, wrap the budget less the alignment.
RECURSIVE join_loop(_, _, _, _, _, _, _, _, _, _)
join_loop(prefix, indent, sep, end, items, force, wrap, i, s, line) ==
    IF i >= Len(items) THEN s \o prefix \o line
    ELSE LET item == items[i + 1]
             sp   == IF i = Len(items) - 1 THEN end ELSE sep
         IN  IF line # <<>>
             THEN IF must_break(force, i, line, item, sp, wrap)
                  THEN join_loop(indent, indent, sep, end, items, force, wrap, i + 1,
                                 s \o prefix \o line \o << Newline >>, item \o sp)
                  ELSE join_loop(prefix, indent, sep, end, items, force, wrap, i + 1,
                                 s, line \o << Space >> \o item \o sp)
             ELSE join_loop(prefix, indent, sep, end, items, force, wrap, i + 1,
                            s, line \o item \o sp)

\* wrap.py join, line 28: the statement on one line.
one_line(prefix, sep, end, items) == prefix \o str_join(sep \o << Space >>, items) \o end

\* Variant of join: the one-line case is not tested first.
join_always_loop(prefix, sep, end, items, force, wrap) ==
    LET align == width(prefix)
    IN  join_loop(prefix, indent_of(align), sep, end, items, force, wrap - align, 0, <<>>, <<>>)

\* wrap.py join.
join(prefix, sep, end, items, force, wrap) ==
    IF width(one_line(prefix, sep, end, items)) <= wrap
    THEN one_line(prefix, sep, end, items)
    ELSE LET align == width(prefix)
         IN  join_loop(prefix, indent_of(align), sep, end, items, force, wrap - align,
                       0, <<>>, <<>>)

(* ------------------------ the text of statements ----------------------- *)

HexDigits == << "0", "1", "2", "3", "4", "5", "6", "7", "8", "9", "a", "b", "c", "d", "e", "f" >>

\* The last n hex digits of v, lower case, zero-filled.
RECURSIVE hex_digits(_, _)
hex_digits(v, n) ==
    IF n = 0 THEN <<>>
    ELSE hex_digits(v \div 16, n - 1) \o << HexDigits[(v % 16) + 1] >>

\* mipi.py _hex_fill: f'{i:#0{size * 2 + 2}x}'.
str_hex(i, size) == << "0", "x" >> \o hex_digits(i, size * 2)

\* The text of a literal: a hex number, or the identifier 'dsi'.
str_literal(l) ==
    IF l.k = "hex" THEN str_hex(l.v, l.size) ELSE << "d", "s", "i" >>

\* '\t' + macro + '(' for the two write macros.
macro_prefix(fn) ==
    IF fn = "dsi_generic_write_seq"
    THEN << Tab, "d", "s", "i", "_", "g", "e", "n", "e", "r", "i", "c", "_",
            "w", "r", "i", "t", "e", "_", "s", "e", "q", "(" >>
    ELSE << Tab, "d", "s", "i", "_", "d", "c", "s", "_",
            "w", "r", "i", "t", "e", "_", "s", "e", "q", "(" >>

\* wrap.py join: wrap: int = 80.
DefaultWrap == 80

\* lk.py generate_commands: wrap=54.
LkWrap == 54

\* The arguments of a call of wrap.join.
JoinArgs(prefix, sep, end, items, force, wrap) ==
    [prefix |-> prefix, sep |-> sep, end |-> end, items |-> items, force |-> force,
     wrap |-> wrap]

\* mipi.py _generate_generic_write / _generate_dcs_write:
\* wrap.join('\tdsi_..._write_seq(', ',', ');', params, force=2) for a
\* statement whose params are 'dsi' and hex literals.
write_seq_join(stmt) ==
    JoinArgs(macro_prefix(stmt.fn), << "," >>, << ")", ";" >>,
             <<>> \o [i \in 1..Len(stmt.args) |-> str_literal(stmt.args[i])], 2, DefaultWrap)

\* lk.py generate_commands:
\* wrap.join('\t', ',', '', [f'{byte:#04x}' for byte in b], wrap=54).
lk_join(b) ==
    JoinArgs(<< Tab >>, << "," >>, <<>>, <<>> \o [i \in 1..Len(b) |-> str_hex(b[i], 1)], -1,
             LkWrap)

(* ------------------------------- inputs -------------------------------- *)

\* lmdpdg.py: --ignore-wait, default=0.
DefaultIgnoreWait == 0

\* One frame of a command property as the device tree holds it.
Frame(type, hdr, payload) ==
    [type |-> type, last |-> hdr[1], vc |-> hdr[2], ack |-> hdr[3], wait |-> hdr[4],
     payload |-> payload]

\* The bytes of a frame: 7-byte header, then the payload.
Encode(f) ==
    << f.type, f.last, f.vc, f.ack, f.wait, Len(f.payload) \div 256, Len(f.payload) % 256 >>
        \o f.payload

FrameLen(f) == 7 + Len(f.payload)

RECURSIVE Flatten(_)
Flatten(fs) == IF fs = <<>> THEN <<>> ELSE Encode(Head(fs)) \o Flatten(Tail(fs))

\* Opcodes of the inputs: DCS_SHORT_WRITE, DCS_SHORT_WRITE_PARAM,
\* DCS_LONG_WRITE, GENERIC_SHORT_WRITE_0_PARAM, TURN_ON_PERIPHERAL,
\* NULL_PACKET, DCS_READ (no strategy) and 0xFF (no member).
InOpcodes == {5, 21, 57, 3, 50, 9, 6, 255}

\* (is_last, virtual_channel, ack_requested, wait_ms) of the inputs.
InHeaders == { <<1, 0, 0, 0>>, <<0, 2, 1, 5>> }

\* Payloads of the inputs: SET_DISPLAY_ON alone and with a trailing byte, and
\* a vendor register write.
InPayloads == { <<>>, <<41>>, <<41, 1>>, <<176, 1, 2>> }

SmallFrames == { Frame(t, h, p) : t \in InOpcodes, h \in InHeaders, p \in InPayloads }

\* Frames whose payload length needs the high length byte.
WideFrames == { Frame(t, h, [i \in 1..WideLen |-> 176]) : t \in {21, 57}, h \in InHeaders }

\* Every sequence of small frames of at most n bytes.
RECURSIVE FrameSeqs(_)
FrameSeqs(n) ==
    {<<>>} \cup UNION { { <<f>> \o s : s \in FrameSeqs(n - FrameLen(f)) } :
                        f \in { g \in SmallFrames : FrameLen(g) <= n } }

\* The (on, off) frame lists of a panel node.
InPanels ==
    UNION { { [on |-> SubSeq(s, 1, k), off |-> SubSeq(s, k + 1, Len(s))] : k \in 0..Len(s) } :
            s \in FrameSeqs(MaxBufLen) }
    \cup { [on |-> <<f>>, off |-> <<>>] : f \in WideFrames }

\* First payload bytes of the matcher inputs: SET_DISPLAY_ON (no argument),
\* SET_GAMMA_CURVE (1, no method), SET_COLUMN_ADDRESS (4), WRITE_MEMORY_START
\* (no declared count), SET_TEAR_ON (1, enum codec), SET_DISPLAY_BRIGHTNESS
\* (1 or 2) and 0xB0 (no member).
DcsFirstBytes == {41, 38, 42, 44, 53, 81, 176}

\* Argument bytes of the matcher inputs: a TearMode value and none.
DcsArgBytes == {0, 2}

RECURSIVE ArgSeqs(_)
ArgSeqs(n) ==
    IF n = 0 THEN {<<>>}
    ELSE LET shorter == ArgSeqs(n - 1)
         IN  shorter \cup { Append(a, b) : a \in { x \in shorter : Len(x) = n - 1 },
                                            b \in DcsArgBytes }

DcsPayloads == {<<>>} \cup { <<b>> \o a : b \in DcsFirstBytes, a \in ArgSeqs(MaxArgBytes) }

\* Panels whose on property is one DCS write and that have no off command.
DcsPanels ==
    { [on |-> << Frame(t, h, p) >>, off |-> <<>>] :
        t \in {5, 21, 57}, h \in InHeaders, p \in DcsPayloads }

\* Panels whose on property is one DCS_LONG_WRITE with any first payload
\* byte and at most one argument byte.
AnyBytePanels ==
    { [on |-> << Frame(57, <<1, 0, 0, 0>>, <<b>> \o a) >>, off |-> <<>>] :
        b \in 0..255, a \in {<<>>, <<0>>, <<2>>} }

\* First payload bytes of the codec inputs: those of the matcher inputs,
\* SET_PAGE_ADDRESS (4) and SET_TEAR_SCANLINE (2).
CodecFirstBytes == DcsFirstBytes \cup {43, 68}

\* Argument bytes of the codec inputs: the two TearMode values and the
\* largest byte; up to MaxCodecArgs of them.
CodecArgBytes == {0, 1, 255}

MaxCodecArgs == 4

RECURSIVE CodecArgs(_)
CodecArgs(n) ==
    IF n = 0 THEN {<<>>}
    ELSE LET shorter == CodecArgs(n - 1)
         IN  shorter \cup { Append(a, b) : a \in { x \in shorter : Len(x) = n - 1 },
                                            b \in CodecArgBytes }

\* Panels whose on property is one long write: a DCS write with a command
\* byte and arguments (or no byte at all), a generic write with at most one
\* byte behind the first, or an opcode that is no member.
SynthPanels ==
    { [on |-> << Frame(57, <<1, 0, 0, 0>>, <<b>> \o a) >>, off |-> <<>>] :
        b \in CodecFirstBytes, a \in CodecArgs(MaxCodecArgs) }
    \cup { [on |-> << Frame(41, <<1, 0, 0, 0>>, <<b>> \o a) >>, off |-> <<>>] :
             b \in CodecFirstBytes, a \in CodecArgs(1) }
    \cup { [on |-> << Frame(t, <<1, 0, 0, 0>>, <<>>) >>, off |-> <<>>] : t \in {57, 255} }

\* Every value of the wait byte of a frame.
WaitBytes == 0..255

\* Values of --ignore-wait: the default, the msleep limit, and values below,
\* at and above the wait of 120 ms.
InIgnoreWait == {0, 20, 50, 120, 150}

\* Panels whose on property is one frame with any wait byte: SET_DISPLAY_ON
\* or a vendor register as DCS_SHORT_WRITE, or a DCS_READ.
WaitPanels ==
    { [on |-> << Frame(f[1], <<1, 0, 0, w>>, f[2]) >>, off |-> <<>>] :
        f \in { <<5, <<41>>>>, <<5, <<176>>>>, <<6, <<>>>> }, w \in WaitBytes }

\* Items per call of the small join inputs.
MaxItems == 4

\* Payload bytes of the write statements whose text is joined.
MaxJoinBytes == 20

\* Prefixes of the small join inputs: none, without and with tabs, visual
\* width 8 and 16 and not a multiple of 8.
JoinPrefixes ==
    { <<>>, << "a" >>, << Tab >>, << "a", "b", Tab >>, << Tab, "f", "(" >>,
      << "a", "b", "c", "d", "e", "f", "g", "h" >>, << Tab, Tab >> }

\* Items of the small join inputs.
JoinItems == { << "x" >>, << "y", "y", "y" >> }

RECURSIVE ItemSeqs(_)
ItemSeqs(n) ==
    IF n = 0 THEN {<<>>}
    ELSE LET shorter == ItemSeqs(n - 1)
         IN  shorter \cup { Append(a, b) : a \in { x \in shorter : Len(x) = n - 1 },
                                            b \in JoinItems }

\* Budgets of the small join inputs.
JoinWraps == { 4, 7, 10, 13, 16, 19, 22, 25, 28 }

SmallJoins ==
    { JoinArgs(prefix, sep, end, items, force, wrap) :
        prefix \in JoinPrefixes, sep \in { << "," >>, << Space, "|" >> },
        end \in { <<>>, << ")", ";" >> },
        items \in ItemSeqs(MaxItems), force \in -1..MaxItems, wrap \in JoinWraps }

\* The payload B0 B1 ... of n bytes: a vendor register write.
JoinPayload(n) == [i \in 1..n |-> 175 + i]

\* The calls of wrap.join the two write strategies and lk.py make for those
\* payloads.
WriteJoins ==
    UNION { { write_seq_join(generate_generic_write(Transaction[41], JoinPayload(n),
                                                   [dumb_dcs |-> d, ignore_wait |-> DefaultIgnoreWait]).text),
              write_seq_join(generate_dcs_write(Transaction[57], JoinPayload(n),
                                               [dumb_dcs |-> d, ignore_wait |-> DefaultIgnoreWait]).text),
              lk_join(JoinPayload(n)) } : n \in 1..MaxJoinBytes, d \in BOOLEAN }

\* Values of qcom,mdss-dsi-reset-sequence: up to MaxResetValues numbers,
\* a pin state (2 is no level) and a sleep in turn; the empty one stands
\* for the absent property too.
MaxResetValues == 6

ResetStates == {0, 1, 2}

ResetSleeps == {0, 20}

RECURSIVE ResetProps(_)
ResetProps(n) ==
    IF n = 0 THEN {<<>>}
    ELSE ResetProps(n - 1)
         \cup { Append(a, v) : a \in { x \in ResetProps(n - 1) : Len(x) = n - 1 },
                               v \in IF n % 2 = 1 THEN ResetStates ELSE ResetSleeps }

\* Panels of the reset inputs: a checked call, DCS_READ (no strategy) and
\* an opcode that is no member.
ResetPanels ==
    { [on |-> << Frame(t, <<1, 0, 0, 0>>, p) >>, off |-> <<>>] :
        t \in {5, 6, 255}, p \in { << 41 >> } }

\* A panel node: the command properties as bytes and the reset sequence.
PanelNode(on, off, reset) ==
    [on |-> on, off |-> off, init |-> <<>>, display_on |-> <<>>, absent |-> {},
     reset |-> reset]

\* Panel nodes of a run over several panels.  A
\* checked call, a raw write with a reset sequence, DCS_READ (no strategy),
\* an opcode that is no member, and a frame cut short.
RunPanels ==
    { PanelNode(Encode(Frame(5, <<1, 0, 0, 0>>, <<41>>)), <<>>, <<>>),
      PanelNode(Encode(Frame(57, <<1, 0, 0, 0>>, <<176, 1>>)), <<>>, <<1, 20, 0, 1>>),
      PanelNode(Encode(Frame(57, <<1, 0, 0, 0>>, <<176, 1>>)),
                Encode(Frame(6, <<1, 0, 0, 0>>, <<>>)), <<>>),
      PanelNode(Encode(Frame(255, <<1, 0, 0, 0>>, <<>>)), <<>>, <<>>),
      PanelNode(<<>>, SubSeq(Encode(Frame(5, <<1, 0, 0, 0>>, <<40>>)), 1, 7), <<>>) }

\* The device trees of a run hold up to MaxRunPanels panels together.
MaxRunPanels == 3

RECURSIVE PanelSeqs(_)
PanelSeqs(n) ==
    IF n = 0 THEN {<<>>}
    ELSE PanelSeqs(n - 1)
         \cup { Append(a, x) : a \in { y \in PanelSeqs(n - 1) : Len(y) = n - 1 },
                               x \in RunPanels }

\* The runs: one device tree, or two that share the panels out.
Runs ==
    { << a >> : a \in PanelSeqs(MaxRunPanels) }
    \cup UNION { { << SubSeq(a, 1, k), SubSeq(a, k + 1, Len(a)) >> : k \in 0..Len(a) } :
                 a \in PanelSeqs(MaxRunPanels) }

\* The properties of a panel node that hold commands: the bytes of
\* qcom,mdss-dsi-on-command and -off-command, of somc,mdss-dsi-init-command
\* and lge,display-on-cmds (empty if not there), and which of the first two
\* the node does not have.
CommandProps(on, off, init, display_on, absent) ==
    [on |-> on, off |-> off, init |-> init, display_on |-> display_on, absent |-> absent]

\* The property bytes: the frames, with c bytes missing at the end of the
\* last property that has any; no vendor property.
Props(fr, c) ==
    LET on  == Flatten(fr.on)
        off == Flatten(fr.off)
    IN  IF off # <<>> THEN CommandProps(on, SubSeq(off, 1, Len(off) - c), <<>>, <<>>, {})
        ELSE CommandProps(SubSeq(on, 1, Len(on) - c), off, <<>>, <<>>, {})

\* Variant of command_bytes: the init commands spliced in after the on
\* commands.
command_bytes_init_late(pr, name) ==
    IF name \in pr.absent THEN <<>>
    ELSE IF name = "on" THEN pr.on \o pr.init \o pr.display_on
    ELSE pr[name]

\* panel.py CommandSequence.__init__: the bytes the loop iterates over.  No
\* commands if the property does not exist; for on,
\* itertools.chain(init, itr) and itertools.chain(itr, on) put the vendor
\* properties before and behind.
command_bytes(pr, name) ==
    IF name \in pr.absent THEN <<>>
    ELSE IF name = "on" THEN pr.init \o pr.on \o pr.display_on
    ELSE pr[name]

\* Frames of the panels with vendor properties: SET_DISPLAY_ON, a raw
\* write followed by a wait, DCS_READ (no strategy) and an opcode that is no
\* member.
ChainFrames ==
    { Frame(5, <<1, 0, 0, 0>>, <<41>>), Frame(57, <<0, 2, 1, 5>>, <<176, 1>>),
      Frame(6, <<1, 0, 0, 0>>, <<>>), Frame(255, <<1, 0, 0, 0>>, <<>>) }

\* Up to two of them.
ChainLists ==
    {<<>>} \cup { << f >> : f \in ChainFrames } \cup { << f, g >> : f, g \in ChainFrames }

\* The frame lists of a panel node with vendor properties.
ChainPanels ==
    { [init |-> i, on |-> o, display_on |-> d, off |-> f] :
        i \in ChainLists, o \in ChainLists,
        d \in { <<>>, << Frame(5, <<1, 0, 0, 0>>, <<41>>) >>,
                << Frame(57, <<0, 2, 1, 5>>, <<176, 1>>) >> },
        f \in { <<>>, << Frame(5, <<1, 0, 0, 0>>, <<40>>) >> } }

(* -------------------------------- state -------------------------------- *)

VARIABLES
    frames,     \* the frames the properties were written from (on, off)
    cut,        \* bytes missing at the end of the last property
    props,      \* the properties of the panel node that hold commands
    options,    \* generator.Options: dumb_dcs, ignore_wait
    pc,         \* where the run is
    cur,        \* the sequence being decoded or synthesized
    pos,        \* bytes the iterator of the sequence has yielded
    cmds,       \* Panel.cmds: for on and off, CommandSequence.seq
    gi,         \* index into cmds[cur] of generate_driver's inner loop
    err,        \* the exception that ended the run, "None" if none
    warnings,   \* diagnostics printed so far
    files,      \* files written into the panel's directory
    functions,  \* the on and off functions of the driver file
    join_args,  \* the arguments of a call of wrap.join
    join_ret,   \* what the call returned
    generated,  \* for on and off, the instance attribute CommandSequence.generated
    class_generated, \* the class attribute CommandSequence.generated
    reset_seq,  \* Panel.reset_seq
    gpios,      \* options.gpios
    reset_lines, \* the body of the reset function of the driver file
    run,        \* the panels of the device trees given to one run of lmdpdg.py
    ri,         \* index into run of the panel at hand
    outs        \* what the run has made of each panel so far

\* The variables of a run over several panels.
run_vars == << run, ri, outs >>

vars == << frames, cut, props, options, pc, cur, pos, cmds, gi, err, warnings, files,
           functions, join_args, join_ret, generated, class_generated, reset_seq, gpios,
           reset_lines, run_vars >>

(* ------------------------------ decoding ------------------------------- *)

\* panel.py Command, generated not yet set.
Command(t, last, vc, ack, wait, payload) ==
    [type |-> t.value, last |-> last, vc |-> vc, ack |-> ack, wait |-> wait,
     payload |-> payload, generated |-> NoStatement]

\* Variant of read_dlen: the length bytes taken least-significant first.
read_dlen_little(hi, lo) == lo * 256 + hi

\* panel.py: dlen = next(itr) << 8 | next(itr); the operands are bytes, so
\* the or adds.
read_dlen(hi, lo) == hi * 256 + lo

\* Variant of read_payload: an exhausted iterator ends the payload instead
\* of raising (the generator expression swallowing StopIteration).
read_payload_short(b, p, dlen) ==
    [exc |-> "None", payload |-> SubSeq(b, p + 1, Min(Len(b), p + dlen)),
     used |-> Min(Len(b) - p, dlen)]

\* panel.py: bytes(next(itr) for _ in range(0, dlen)) with the iterator at
\* p.  An exhausted iterator raises StopIteration inside the generator
\* expression, which surfaces as RuntimeError (PEP 479).
read_payload(b, p, dlen) ==
    IF Len(b) < p + dlen
    THEN [exc |-> "RuntimeError", payload |-> <<>>, used |-> Len(b) - p]
    ELSE [exc |-> "None", payload |-> SubSeq(b, p + 1, p + dlen), used |-> dlen]

\* Variant of max_dlen: the command byte not counted.
max_dlen_args_only(t) == t.max_args

\* panel.py: max_dlen = t.max_args + 1.
max_dlen(t) == t.max_args + 1

\* Variant of truncate: the lower bound of the comparison left out.
truncate_unguarded(t, payload, dlen) ==
    IF max_dlen(t) < dlen
    THEN SubSeq(payload, 1, max_dlen(t))
    ELSE payload

\* panel.py: if 0 < max_dlen < dlen: payload = payload[:max_dlen].
truncate(t, payload, dlen) ==
    IF 0 < max_dlen(t) /\ max_dlen(t) < dlen
    THEN SubSeq(payload, 1, max_dlen(t))
    ELSE payload

\* Variant of Transaction_lookup: a value that is no member is given a
\* member without strategy instead of raising.
Transaction_lookup_stub(dtype) ==
    IF dtype \in DOMAIN Transaction
    THEN [exc |-> "None", t |-> Transaction[dtype]]
    ELSE [exc |-> "None", t |-> Transaction[1]]

\* Variant of Transaction_lookup: members without strategy are refused at
\* lookup.
Transaction_lookup_strict(dtype) ==
    IF dtype \in DOMAIN Transaction /\ Transaction[dtype].generate # "fallback"
    THEN [exc |-> "None", t |-> Transaction[dtype]]
    ELSE [exc |-> "ValueError", t |-> Transaction[1]]

\* mipi.Transaction(dtype): the member of that value, ValueError if none.
Transaction_lookup(dtype) ==
    IF dtype \in DOMAIN Transaction
    THEN [exc |-> "None", t |-> Transaction[dtype]]
    ELSE [exc |-> "ValueError", t |-> Transaction[1]]

NoCommand == Command(Transaction[1], 0, 0, 0, 0, <<>>)

\* panel.py CommandSequence.__init__, one iteration of "for dtype in itr" with
\* the iterator at p < Len(b): the command appended and the new position, or
\* the exception raised.
decode_command(b, p) ==
    IF Len(b) < p + 7
    THEN [exc |-> "StopIteration", cmd |-> NoCommand, pos |-> Len(b)]
    ELSE LET dlen == read_dlen(b[p + 6], b[p + 7])
             r    == read_payload(b, p + 7, dlen)
             c    == Transaction_lookup(b[p + 1])
         IN  IF r.exc # "None"
             THEN [exc |-> r.exc, cmd |-> NoCommand, pos |-> p + 7 + r.used]
             ELSE IF c.exc # "None"
             THEN [exc |-> c.exc, cmd |-> NoCommand, pos |-> p + 7 + r.used]
             ELSE [exc |-> "None",
                   cmd |-> Command(c.t, b[p + 2], b[p + 3], b[p + 4], b[p + 5],
                                   truncate(c.t, r.payload, dlen)),
                   pos |-> p + 7 + r.used]

\* panel.py CommandSequence.__init__, the whole loop with the iterator at p:
\* the commands appended, or the exception that leaves the constructor.
RECURSIVE decode_from(_, _)

\* The loop after the command d: r is what the rest of the property gives.
decode_rest(d, r) ==
    IF r.exc # "None" THEN r
    ELSE [exc |-> "None", seq |-> << d.cmd >> \o r.seq]

\* One iteration: d is what decoding at the offset gave or raised.
decode_next(b, d) ==
    IF d.exc # "None" THEN [exc |-> d.exc, seq |-> <<>>]
    ELSE decode_rest(d, decode_from(b, d.pos))

decode_from(b, p) ==
    IF p >= Len(b) THEN [exc |-> "None", seq |-> <<>>]
    ELSE decode_next(b, decode_command(b, p))

\* panel.py Panel.__init__: the Panel of a node whose on and off properties
\* decoded to on and off; an exception of either leaves the constructor.
Panel_init(node, on, off) ==
    IF on.exc # "None" THEN [exc |-> on.exc, cmds |-> [on |-> <<>>, off |-> <<>>],
                             reset_seq |-> <<>>]
    ELSE IF off.exc # "None"
    THEN [exc |-> off.exc, cmds |-> [on |-> <<>>, off |-> <<>>], reset_seq |-> <<>>]
    ELSE [exc |-> "None", cmds |-> [on |-> on.seq, off |-> off.seq],
          reset_seq |-> zip_pairs(node.reset)]

\* panel.py Panel.parse, Panel.__init__: reset_seq, then the on and the off
\* sequence.
Panel_parse(node) ==
    Panel_init(node, decode_from(command_bytes(node, "on"), 0),
               decode_from(command_bytes(node, "off"), 0))

\* driver.py generate_driver, the inner loop over cmd.seq for one
\* CommandSequence whose attribute is inst while the class holds klass.
RECURSIVE synthesize(_, _, _, _)

\* The loop after the command c got its text: rest is what the commands
\* behind it give.
synthesize_rest(c, text, rest) ==
    [rest EXCEPT !.seq = IF rest.exc = "None"
                         THEN << [c EXCEPT !.generated = text] >> \o @
                         ELSE <<>>]

\* cmd.generated += c.generated: a holds the attribute and the class after it.
synthesize_iadd(seq, opts, text, a) ==
    synthesize_rest(Head(seq), text, synthesize(Tail(seq), a.inst, a.klass, opts))

\* One iteration: r is what c.type.generate returned or raised.
synthesize_next(seq, inst, klass, opts, r) ==
    IF r.exc # "None"
    THEN [exc |-> r.exc, seq |-> <<>>, inst |-> inst, klass |-> klass]
    ELSE synthesize_iadd(seq, opts, r.text, iadd_generated(inst, klass, r.text))

synthesize(seq, inst, klass, opts) ==
    IF seq = <<>> THEN [exc |-> "None", seq |-> <<>>, inst |-> inst, klass |-> klass]
    ELSE synthesize_next(seq, inst, klass, opts,
             Transaction_generate(Transaction[Head(seq).type], Head(seq).payload, opts))

\* What a panel that raised leaves of the driver file.
NoText == [functions |-> [name \in {"on", "off"} |-> [variables |-> <<>>, lines |-> <<>>]],
           reset_lines |-> <<>>]

\* driver.py generate_driver, behind the loops: the functions of the on and
\* the off sequence and the reset function, with options.gpios set to g2.
write_driver(p, opts, g, on, off, g2) ==
    IF on.exc # "None"
    THEN [exc |-> on.exc, text |-> NoText, klass |-> on.klass, gpios |-> g]
    ELSE IF off.exc # "None"
    THEN [exc |-> off.exc, text |-> NoText, klass |-> off.klass, gpios |-> g]
    ELSE [exc |-> "None",
          text |-> [functions |->
                        [on  |-> generate_commands(on.seq,
                                     attr_generated(on.inst, off.klass), opts),
                         off |-> generate_commands(off.seq,
                                     attr_generated(off.inst, off.klass), opts)],
                    reset_lines |-> generate_reset(p.reset_seq, g2)],
          klass |-> off.klass, gpios |-> g2]

\* driver.py generate_driver, the loop over the off sequence, which finds
\* the class as the loop over the on sequence left it.
synthesize_off(p, opts, g, on) ==
    write_driver(p, opts, g, on, synthesize(p.cmds.off, Unset, on.klass, opts),
                 driver_gpios(p.reset_seq))

\* driver.py generate_driver as lmdpdg.py generate calls it, on a panel with
\* the class attribute klass and options.gpios g: the text written into the
\* driver file, and what the call leaves in the class and in options.
generate_driver(p, opts, klass, g) ==
    synthesize_off(p, opts, g, synthesize(p.cmds.on, Unset, klass, opts))

\* The first panel of the first device tree.
FirstPanel == [f |-> 1, p |-> 1]

\* No call of wrap.join is looked at.
NoJoin == JoinArgs(<<>>, <<>>, <<>>, <<>>, -1, DefaultWrap)

\* No CommandSequence has an attribute generated of its own yet.
NoGenerated == [name \in {"on", "off"} |-> Unset]

\* No driver file is written yet.
NoFunctions == [name \in {"on", "off"} |-> [variables |-> <<>>, lines |-> <<>>]]

Init ==
    /\ frames \in InPanels
    /\ cut \in { c \in 0..MaxCut :
                   c <= Len(Flatten(IF frames.off # <<>> THEN frames.off ELSE frames.on)) }
    /\ props = Props(frames, cut)
    /\ options \in [dumb_dcs : BOOLEAN, ignore_wait : {DefaultIgnoreWait}]
    /\ pc = "decode"
    /\ cur = "on"
    /\ pos = 0
    /\ cmds = [on |-> <<>>, off |-> <<>>]
    /\ gi = 1
    /\ err = "None"
    /\ warnings = <<>>
    /\ files = {}
    /\ functions = NoFunctions
    /\ join_args = NoJoin
    /\ join_ret = <<>>
    /\ generated = NoGenerated
    /\ class_generated = <<>>
    /\ reset_seq = <<>>
    /\ gpios = NoGpios
    /\ reset_lines = <<>>
    /\ run = <<>>
    /\ ri = FirstPanel
    /\ outs = <<>>

\* The same run on the matcher inputs.
InitDcs ==
    /\ frames \in DcsPanels \cup AnyBytePanels
    /\ cut \in { c \in 0..MaxCut : c <= Len(Flatten(frames.on)) }
    /\ props = Props(frames, cut)
    /\ options \in [dumb_dcs : BOOLEAN, ignore_wait : {DefaultIgnoreWait}]
    /\ pc = "decode"
    /\ cur = "on"
    /\ pos = 0
    /\ cmds = [on |-> <<>>, off |-> <<>>]
    /\ gi = 1
    /\ err = "None"
    /\ warnings = <<>>
    /\ files = {}
    /\ functions = NoFunctions
    /\ join_args = NoJoin
    /\ join_ret = <<>>
    /\ generated = NoGenerated
    /\ class_generated = <<>>
    /\ reset_seq = <<>>
    /\ gpios = NoGpios
    /\ reset_lines = <<>>
    /\ run = <<>>
    /\ ri = FirstPanel
    /\ outs = <<>>

\* The same run on the wait inputs, with --ignore-wait given.
InitWait ==
    /\ frames \in WaitPanels
    /\ cut \in { c \in 0..MaxCut : c <= Len(Flatten(frames.on)) }
    /\ props = Props(frames, cut)
    /\ options \in [dumb_dcs : BOOLEAN, ignore_wait : InIgnoreWait]
    /\ pc = "decode"
    /\ cur = "on"
    /\ pos = 0
    /\ cmds = [on |-> <<>>, off |-> <<>>]
    /\ gi = 1
    /\ err = "None"
    /\ warnings = <<>>
    /\ files = {}
    /\ functions = NoFunctions
    /\ join_args = NoJoin
    /\ join_ret = <<>>
    /\ generated = NoGenerated
    /\ class_generated = <<>>
    /\ reset_seq = <<>>
    /\ gpios = NoGpios
    /\ reset_lines = <<>>
    /\ run = <<>>
    /\ ri = FirstPanel
    /\ outs = <<>>

\* A call of wrap.join on its own.
InitJoin ==
    /\ join_args \in SmallJoins \cup WriteJoins
    /\ join_ret = <<>>
    /\ pc = "join"
    /\ frames = [on |-> <<>>, off |-> <<>>]
    /\ cut = 0
    /\ props = Props(frames, cut)
    /\ options = [dumb_dcs |-> FALSE, ignore_wait |-> DefaultIgnoreWait]
    /\ cur = "on"
    /\ pos = 0
    /\ cmds = [on |-> <<>>, off |-> <<>>]
    /\ gi = 1
    /\ err = "None"
    /\ warnings = <<>>
    /\ files = {}
    /\ functions = NoFunctions
    /\ generated = NoGenerated
    /\ class_generated = <<>>
    /\ reset_seq = <<>>
    /\ gpios = NoGpios
    /\ reset_lines = <<>>
    /\ run = <<>>
    /\ ri = FirstPanel
    /\ outs = <<>>

\* The same run on the codec inputs.
InitSynth ==
    /\ frames \in SynthPanels
    /\ cut = 0
    /\ props = Props(frames, cut)
    /\ options \in [dumb_dcs : BOOLEAN, ignore_wait : {DefaultIgnoreWait}]
    /\ pc = "decode"
    /\ cur = "on"
    /\ pos = 0
    /\ cmds = [on |-> <<>>, off |-> <<>>]
    /\ gi = 1
    /\ err = "None"
    /\ warnings = <<>>
    /\ files = {}
    /\ functions = NoFunctions
    /\ join_args = NoJoin
    /\ join_ret = <<>>
    /\ generated = NoGenerated
    /\ class_generated = <<>>
    /\ reset_seq = <<>>
    /\ gpios = NoGpios
    /\ reset_lines = <<>>
    /\ run = <<>>
    /\ ri = FirstPanel
    /\ outs = <<>>

\* The same run on a panel node with a reset sequence.
InitReset ==
    /\ frames \in ResetPanels
    /\ cut = 0
    /\ props = Props(frames, cut)
    /\ reset_seq \in { zip_pairs(a) : a \in ResetProps(MaxResetValues) }
    /\ options = [dumb_dcs |-> FALSE, ignore_wait |-> DefaultIgnoreWait]
    /\ pc = "decode"
    /\ cur = "on"
    /\ pos = 0
    /\ cmds = [on |-> <<>>, off |-> <<>>]
    /\ gi = 1
    /\ err = "None"
    /\ warnings = <<>>
    /\ files = {}
    /\ functions = NoFunctions
    /\ join_args = NoJoin
    /\ join_ret = <<>>
    /\ generated = NoGenerated
    /\ class_generated = <<>>
    /\ gpios = NoGpios
    /\ reset_lines = <<>>
    /\ run = <<>>
    /\ ri = FirstPanel
    /\ outs = <<>>

\* The same run on a panel node with vendor properties, with and without
\* qcom,mdss-dsi-on-command.
InitChain ==
    /\ frames \in ChainPanels
    /\ cut = 0
    /\ \E absent \in { {}, {"on"} } :
          props = CommandProps(Flatten(frames.on), Flatten(frames.off), Flatten(frames.init),
                               Flatten(frames.display_on), absent)
    /\ options = [dumb_dcs |-> FALSE, ignore_wait |-> DefaultIgnoreWait]
    /\ pc = "decode"
    /\ cur = "on"
    /\ pos = 0
    /\ cmds = [on |-> <<>>, off |-> <<>>]
    /\ gi = 1
    /\ err = "None"
    /\ warnings = <<>>
    /\ files = {}
    /\ functions = NoFunctions
    /\ join_args = NoJoin
    /\ join_ret = <<>>
    /\ generated = NoGenerated
    /\ class_generated = <<>>
    /\ reset_seq = <<>>
    /\ gpios = NoGpios
    /\ reset_lines = <<>>
    /\ run = <<>>
    /\ ri = FirstPanel
    /\ outs = <<>>

\* lmdpdg.py: a run over the device trees of the command line, before the
\* first is searched for panels.
InitRun ==
    /\ run \in Runs
    /\ ri = FirstPanel
    /\ outs = <<>>
    /\ pc = "find"
    /\ options = [dumb_dcs |-> FALSE, ignore_wait |-> DefaultIgnoreWait]
    /\ class_generated = <<>>
    /\ gpios = NoGpios
    /\ cmds = [on |-> <<>>, off |-> <<>>]
    /\ reset_seq = <<>>
    /\ err = "None"
    /\ frames = [on |-> <<>>, off |-> <<>>]
    /\ cut = 0
    /\ props = Props(frames, cut)
    /\ cur = "on"
    /\ pos = 0
    /\ gi = 1
    /\ warnings = <<>>
    /\ files = {}
    /\ functions = NoFunctions
    /\ generated = NoGenerated
    /\ reset_lines = <<>>
    /\ join_args = NoJoin
    /\ join_ret = <<>>

\* CommandSequence.__init__: a loop iteration that appends a command.
DecodeCommand ==
    /\ pc = "decode"
    /\ pos < Len(command_bytes(props, cur))
    /\ LET d == decode_command(command_bytes(props, cur), pos)
       IN  /\ d.exc = "None"
           /\ cmds' = [cmds EXCEPT ![cur] = Append(@, d.cmd)]
           /\ pos' = d.pos
    /\ UNCHANGED << run_vars, class_generated, generated, reset_seq, gpios, reset_lines,
                    join_args, join_ret, functions, frames, cut, props, options, pc, cur,
                    gi, err, warnings, files >>

\* CommandSequence.__init__: a loop iteration that raises; the exception
\* leaves Panel.__init__, so no Panel exists.
DecodeRaise ==
    /\ pc = "decode"
    /\ pos < Len(command_bytes(props, cur))
    /\ LET d == decode_command(command_bytes(props, cur), pos)
       IN  /\ d.exc # "None"
           /\ err' = d.exc
           /\ pos' = d.pos
    /\ pc' = "failed"
    /\ UNCHANGED << run_vars, class_generated, generated, reset_seq, gpios, reset_lines,
                    join_args, join_ret, functions, frames, cut, props, options, cur,
                    cmds, gi, warnings, files >>

\* Panel.__init__: the on sequence is complete, the off sequence is next.
DecodeOnEnd ==
    /\ pc = "decode"
    /\ cur = "on"
    /\ pos = Len(command_bytes(props, cur))
    /\ cur' = "off"
    /\ pos' = 0
    /\ UNCHANGED << run_vars, class_generated, generated, reset_seq, gpios, reset_lines,
                    join_args, join_ret, functions, frames, cut, props, options, pc,
                    cmds, gi, err, warnings, files >>

\* Panel.__init__ returns; lmdpdg.py generate(p, options) starts.
PanelReady ==
    /\ pc = "decode"
    /\ cur = "off"
    /\ pos = Len(command_bytes(props, cur))
    /\ pc' = "simple"
    /\ UNCHANGED << run_vars, class_generated, generated, reset_seq, gpios, reset_lines,
                    join_args, join_ret, functions, frames, cut, props, options, cur,
                    pos, cmds, gi, err, warnings, files >>

(* ------------------------------ synthesis ------------------------------ *)

\* lmdpdg.py generate: generate_panel_simple(p) writes its file first.
GeneratePanelSimple ==
    /\ pc = "simple"
    /\ files' = files \cup {"panel-simple"}
    /\ pc' = "commands"
    /\ cur' = "on"
    /\ gi' = 1
    /\ UNCHANGED << run_vars, class_generated, generated, reset_seq, gpios, reset_lines,
                    join_args, join_ret, functions, frames, cut, props, options, pos,
                    cmds, err, warnings >>

\* driver.py generate_driver: c.generated = c.type.generate(c.payload, options)
\* for the next command.
GenerateCommand ==
    /\ pc = "commands"
    /\ gi <= Len(cmds[cur])
    /\ LET c == cmds[cur][gi]
           r == Transaction_generate(Transaction[c.type], c.payload, options)
           a == iadd_generated(generated[cur], class_generated, r.text)
       IN  /\ r.exc = "None"
           /\ cmds' = [cmds EXCEPT ![cur][gi].generated = r.text]
           /\ generated' = [generated EXCEPT ![cur] = a.inst]
           /\ class_generated' = a.klass
           /\ warnings' = warnings \o r.warn
    /\ gi' = gi + 1
    /\ UNCHANGED << run_vars, reset_seq, gpios, reset_lines, join_args, join_ret, functions,
                    frames, cut, props, options, pc, cur, pos, err, files >>

\* driver.py generate_driver: the strategy raises; the exception leaves
\* generate_driver and generate.
GenerateRaise ==
    /\ pc = "commands"
    /\ gi <= Len(cmds[cur])
    /\ LET c == cmds[cur][gi]
           r == Transaction_generate(Transaction[c.type], c.payload, options)
       IN  /\ r.exc # "None"
           /\ err' = r.exc
           /\ warnings' = warnings \o r.warn
    /\ pc' = "failed"
    /\ UNCHANGED << run_vars, class_generated, generated, reset_seq, gpios, reset_lines,
                    join_args, join_ret, functions, frames, cut, props, options, cur,
                    pos, cmds, gi, files >>

\* driver.py generate_driver: p.cmds.values() yields off after on.
NextSequence ==
    /\ pc = "commands"
    /\ cur = "on"
    /\ gi > Len(cmds[cur])
    /\ cur' = "off"
    /\ gi' = 1
    /\ UNCHANGED << run_vars, class_generated, generated, reset_seq, gpios, reset_lines,
                    join_args, join_ret, functions, frames, cut, props, options, pc, pos,
                    cmds, err, warnings, files >>

\* driver.py generate_driver: every command is synthesized; options.gpios is
\* set and the driver file is written, with generate_reset(p, options),
\* generate_commands(p, options, 'on') and (.., 'off').
WriteDriver ==
    /\ pc = "commands"
    /\ cur = "off"
    /\ gi > Len(cmds[cur])
    /\ gpios' = driver_gpios(reset_seq)
    /\ files' = files \cup {"driver"}
    /\ reset_lines' = generate_reset(reset_seq, gpios')
    /\ functions' = [name \in {"on", "off"} |->
                       generate_commands(cmds[name],
                                         attr_generated(generated[name], class_generated),
                                         options)]
    /\ pc' = "dtsi"
    /\ UNCHANGED << run_vars, class_generated, generated, reset_seq, join_args, join_ret,
                    frames, cut, props, options, cur, pos, cmds, gi, err, warnings >>

\* lmdpdg.py generate: generate_panel_dtsi(p, options) writes the last file.
GeneratePanelDtsi ==
    /\ pc = "dtsi"
    /\ files' = files \cup {"dtsi"}
    /\ pc' = "done"
    /\ UNCHANGED << run_vars, class_generated, generated, reset_seq, gpios, reset_lines,
                    join_args, join_ret, functions, frames, cut, props, options, cur,
                    pos, cmds, gi, err, warnings >>

\* wrap.py join: the call returns.
Join ==
    /\ pc = "join"
    /\ join_ret' = join(join_args.prefix, join_args.sep, join_args.end, join_args.items,
                        join_args.force, join_args.wrap)
    /\ pc' = "joined"
    /\ UNCHANGED << run_vars, class_generated, generated, reset_seq, gpios, reset_lines,
                    join_args, frames, cut, props, options, cur, pos, cmds, gi, err,
                    warnings, files, functions >>

\* The panel at hand, as generate receives it.
ThisPanel == [cmds |-> cmds, reset_seq |-> reset_seq]

\* lmdpdg.py: the for statement over the panels of a device tree has its
\* next panel: the Panel object is built before generate(panel, args) is
\* entered.
FindPanel ==
    /\ pc = "find"
    /\ ri.f <= Len(run)
    /\ ri.p <= Len(run[ri.f])
    /\ \E r \in { Panel_parse(run[ri.f][ri.p]) } :
           /\ r.exc = "None"
           /\ cmds' = r.cmds
           /\ reset_seq' = r.reset_seq
    /\ pc' = "generate"
    /\ UNCHANGED << run, ri, outs, class_generated, generated, gpios, reset_lines, join_args,
                    join_ret, functions, frames, cut, props, options, cur, pos, gi, err,
                    warnings, files >>

\* lmdpdg.py: building the Panel raises.  No try statement holds the
\* construction (the one of the loop holds the call of generate only), so
\* the exception leaves the program.
FindRaise ==
    /\ pc = "find"
    /\ ri.f <= Len(run)
    /\ ri.p <= Len(run[ri.f])
    /\ \E r \in { Panel_parse(run[ri.f][ri.p]) } :
           /\ r.exc # "None"
           /\ err' = r.exc
    /\ pc' = "crashed"
    /\ UNCHANGED << run, ri, outs, class_generated, generated, reset_seq, gpios, reset_lines,
                    join_args, join_ret, functions, frames, cut, props, options, cur, pos,
                    cmds, gi, warnings, files >>

\* lmdpdg.py: try: generate(panel, args) returns.
GeneratePanel ==
    /\ pc = "generate"
    /\ \E r \in { generate_driver(ThisPanel, options, class_generated, gpios) } :
           /\ r.exc = "None"
           /\ outs' = Append(outs, [at |-> ri, exc |-> "None", text |-> r.text])
           /\ class_generated' = r.klass
           /\ gpios' = r.gpios
    /\ ri' = [ri EXCEPT !.p = @ + 1]
    /\ pc' = "find"
    /\ UNCHANGED << run, generated, reset_seq, reset_lines, join_args, join_ret, functions,
                    frames, cut, props, options, cur, pos, cmds, gi, err, warnings, files >>

\* lmdpdg.py: generate(panel, args) raises; except: traceback.print_exc, and
\* the loop goes on.
GenerateCaught ==
    /\ pc = "generate"
    /\ \E r \in { generate_driver(ThisPanel, options, class_generated, gpios) } :
           /\ r.exc # "None"
           /\ outs' = Append(outs, [at |-> ri, exc |-> r.exc, text |-> r.text])
           /\ class_generated' = r.klass
           /\ gpios' = r.gpios
    /\ ri' = [ri EXCEPT !.p = @ + 1]
    /\ pc' = "find"
    /\ UNCHANGED << run, generated, reset_seq, reset_lines, join_args, join_ret, functions,
                    frames, cut, props, options, cur, pos, cmds, gi, err, warnings, files >>

\* lmdpdg.py: the panels of a device tree are through; for f in args.dtb
\* goes to the next.
NextFile ==
    /\ pc = "find"
    /\ ri.f <= Len(run)
    /\ ri.p > Len(run[ri.f])
    /\ ri' = [f |-> ri.f + 1, p |-> 1]
    /\ UNCHANGED << run, outs, class_generated, generated, reset_seq, gpios, reset_lines,
                    join_args, join_ret, functions, frames, cut, props, options, pc, cur,
                    pos, cmds, gi, err, warnings, files >>

\* lmdpdg.py: the device trees are through; the program ends.
EndRun ==
    /\ pc = "find"
    /\ ri.f > Len(run)
    /\ pc' = "exit"
    /\ UNCHANGED << run, ri, outs, class_generated, generated, reset_seq, gpios, reset_lines,
                    join_args, join_ret, functions, frames, cut, props, options, cur, pos,
                    cmds, gi, err, warnings, files >>

Next ==
    \/ DecodeCommand
    \/ DecodeRaise
    \/ DecodeOnEnd
    \/ PanelReady
    \/ GeneratePanelSimple
    \/ GenerateCommand
    \/ GenerateRaise
    \/ NextSequence
    \/ WriteDriver
    \/ GeneratePanelDtsi

Spec == Init /\ [][Next]_vars

SpecDcs == InitDcs /\ [][Next]_vars

SpecWait == InitWait /\ [][Next]_vars

SpecChain == InitChain /\ [][Next]_vars

SpecSynth == InitSynth /\ [][Next]_vars

SpecReset == InitReset /\ [][Next]_vars

NextJoin == Join

SpecJoin == InitJoin /\ [][NextJoin]_vars

NextRun ==
    \/ FindPanel
    \/ FindRaise
    \/ GeneratePanel
    \/ GenerateCaught
    \/ NextFile
    \/ EndRun

SpecRun == InitRun /\ [][NextRun]_vars

TypeOK ==
    /\ pc \in {"decode", "simple", "commands", "dtsi", "done", "failed", "join", "joined",
               "find", "generate", "exit", "crashed"}
    /\ cur \in {"on", "off"}
    /\ err \in {"None", "StopIteration", "RuntimeError", "ValueError", "IndexError"}
    /\ (pc \in {"failed", "crashed"}) = (err # "None")

(* ------------------------- shared by the claims ------------------------ *)

Names == {"on", "off"}

\* Offset just behind frame i of fs (0 for i = 0).
FrameEnd(fs, i) == Len(Flatten(SubSeq(fs, 1, i)))

\* The property holds whole frames only.
WellFormed(name) == props[name] = Flatten(frames[name])

\* The end of the property lies inside a frame.
CutMidFrame(name) == \A k \in 0..Len(frames[name]) : Len(props[name]) # FrameEnd(frames[name], k)

\* A Panel object exists: Panel.__init__ has returned.
PanelExists == pc \in {"simple", "commands", "dtsi", "done"} \/ (pc = "failed" /\ files # {})

\* Decoding of the property has ended, by exhaustion or by an exception.
Ended(name) ==
    IF name = "on" THEN ~(pc = "decode" /\ cur = "on")
    ELSE PanelExists \/ (pc = "failed" /\ cur = "off")

\* Decoded commands stand for the frames of the same index.
Aligned == \A name \in Names : Len(cmds[name]) <= Len(frames[name])

KnownOpcode(f) == f.type \in DOMAIN Transaction

IsHexOf(args, bytes) ==
    /\ Len(args) = Len(bytes)
    /\ \A j \in 1..Len(bytes) : args[j] = hex_fill(bytes[j], 1)

\* The raw DCS write carrying exactly these bytes.
IsRawDcsWrite(s, bytes) ==
    /\ s.kind = "write_seq"
    /\ s.fn = "dsi_dcs_write_seq"
    /\ Len(s.args) = Len(bytes) + 1
    /\ s.args[1] = Ident("dsi")
    /\ IsHexOf(Tail(s.args), bytes)

(* ------------------------------- C1, C2 -------------------------------- *)

\* max_args of the member a decoded command was classified as.
MaxArgs(c) == Transaction[c.type].max_args

\* C1 as stated: a decoded operation whose opcode has a bounded max_args N
\* and whose declared payload is longer than N is stored with exactly N
\* payload bytes.
C1_StoredLengthIsMaxArgs ==
    /\ Aligned
    /\ \A name \in Names : \A i \in 1..Len(cmds[name]) :
         LET c == cmds[name][i]
             f == frames[name][i]
         IN  (MaxArgs(c) >= 0 /\ Len(f.payload) > MaxArgs(c))
                => Len(c.payload) = MaxArgs(c)

\* C1 amended: a decoded operation whose opcode has a bounded max_args N and
\* whose declared payload is longer than N + 1 is stored with exactly the
\* first N + 1 payload bytes (the command byte and N arguments), in the
\* sequence and at synthesis alike.
C1_StoredLengthIsMaxArgsPlusOne ==
    /\ Aligned
    /\ \A name \in Names : \A i \in 1..Len(cmds[name]) :
         LET c == cmds[name][i]
             f == frames[name][i]
         IN  (MaxArgs(c) >= 0 /\ Len(f.payload) > MaxArgs(c) + 1)
                => /\ Len(c.payload) = MaxArgs(c) + 1
                   /\ c.payload = SubSeq(f.payload, 1, MaxArgs(c) + 1)

\* An over-long DCS_SHORT_WRITE_PARAM (N = 1, three bytes declared) has been
\* decoded and synthesized.
C1_Witness ==
    \E name \in Names : \E i \in 1..Len(cmds[name]) :
        /\ i <= Len(frames[name])
        /\ cmds[name][i].type = 21
        /\ Len(frames[name][i].payload) = 3
        /\ cmds[name][i].generated # NoStatement

\* C2 as stated: an operation whose opcode has max_args 0 or -1 is stored with
\* exactly the declared payload bytes, whatever the declared length.
C2_UnboundedOrZeroStoredWhole ==
    /\ Aligned
    /\ \A name \in Names : \A i \in 1..Len(cmds[name]) :
         LET c == cmds[name][i]
             f == frames[name][i]
         IN  MaxArgs(c) \in {0, -1} => c.payload = f.payload

\* C2 amended: an operation whose opcode has max_args -1 is stored with
\* exactly the declared payload bytes, whatever the declared length; with
\* max_args 0 only the first declared byte is stored (the whole payload when
\* at most one byte is declared).
C2_OnlyUnboundedStoredWhole ==
    /\ Aligned
    /\ \A name \in Names : \A i \in 1..Len(cmds[name]) :
         LET c == cmds[name][i]
             f == frames[name][i]
         IN  /\ MaxArgs(c) = -1 => c.payload = f.payload
             /\ MaxArgs(c) = 0 => c.payload = SubSeq(f.payload, 1, Min(1, Len(f.payload)))

\* A DCS_LONG_WRITE whose declared length needs both length bytes has been
\* decoded and synthesized with its whole payload.
C2_Witness ==
    /\ Len(cmds["on"]) = 1
    /\ cmds["on"][1].type = 57
    /\ Len(cmds["on"][1].payload) = WideLen
    /\ cmds["on"][1].generated # NoStatement

(* --------------------------------- C3 ---------------------------------- *)

\* C3: when a property ends inside a frame (in its header or before the
\* declared payload is complete), decoding ends in an exception: no Panel is
\* handed to the caller, and every command ever appended comes from a frame
\* that lies entirely inside the property.
C3_ShortBufferFails ==
    /\ Aligned
    /\ \A name \in Names : \A i \in 1..Len(cmds[name]) :
         FrameEnd(frames[name], i) <= Len(props[name])
    /\ \A name \in Names : CutMidFrame(name) => ~PanelExists
    /\ \A name \in Names :
         (CutMidFrame(name) /\ Ended(name)) => (pc = "failed" /\ err # "None")

\* A property that ends inside the payload of its second frame: the first
\* frame was appended, the second raised.
C3_Witness ==
    /\ pc = "failed"
    /\ err = "RuntimeError"
    /\ CutMidFrame(cur)
    /\ Len(frames[cur]) = 2
    /\ Len(cmds[cur]) = 1

(* --------------------------------- C4 ---------------------------------- *)

\* Command c carries the header bytes of frame f and bytes of its payload.
Carries(c, f) ==
    /\ c.type = f.type
    /\ c.last = f.last
    /\ c.vc = f.vc
    /\ c.ack = f.ack
    /\ c.wait = f.wait
    /\ Len(c.payload) <= Len(f.payload)
    /\ c.payload = SubSeq(f.payload, 1, Len(c.payload))

\* Operation i of the sequence is frame i, and the iterator stands behind
\* the frames decoded so far.
InFrameOrder(name) ==
    /\ Len(cmds[name]) <= Len(frames[name])
    /\ \A i \in 1..Len(cmds[name]) : Carries(cmds[name][i], frames[name][i])
    /\ (pc = "decode" /\ cur = name) => pos = FrameEnd(frames[name], Len(cmds[name]))

\* C4 as stated: a property that is the concatenation of k whole frames
\* decodes to exactly k operations in frame order, the cursor moving by
\* 7 + declared length per frame.
C4_WholeFramesAllDecoded ==
    \A name \in Names :
        WellFormed(name) =>
            /\ InFrameOrder(name)
            /\ Ended(name) => Len(cmds[name]) = Len(frames[name])

\* C4 amended: a property that is the concatenation of k whole frames whose
\* opcodes are all members of the Transaction table decodes to exactly k
\* operations in frame order; operation i carries the header bytes of frame
\* i, its length is byte5 * 256 + byte6, and the cursor moves by 7 + declared
\* length per frame, also when the stored payload is truncated.
C4_KnownFramesAllDecoded ==
    \A name \in Names :
        (WellFormed(name) /\ \A i \in 1..Len(frames[name]) : KnownOpcode(frames[name][i])) =>
            /\ InFrameOrder(name)
            /\ Ended(name) => Len(cmds[name]) = Len(frames[name])

\* Two frames were decoded, the first stored with fewer bytes than declared,
\* the second with the other header.
C4_Witness ==
    /\ PanelExists
    /\ Len(cmds["on"]) = 2
    /\ Len(frames["on"]) = 2
    /\ Len(cmds["on"][1].payload) < Len(frames["on"][1].payload)
    /\ cmds["on"][1].wait # cmds["on"][2].wait

(* --------------------------------- C5 ---------------------------------- *)

\* Index of the first frame whose opcode is no member, Len + 1 if none.
FirstUnknown(fs) ==
    IF \E i \in 1..Len(fs) : ~KnownOpcode(fs[i])
    THEN CHOOSE i \in 1..Len(fs) :
            /\ ~KnownOpcode(fs[i])
            /\ \A j \in 1..(i - 1) : KnownOpcode(fs[j])
    ELSE Len(fs) + 1

HasUnknown(name) == FirstUnknown(frames[name]) <= Len(frames[name])

\* C5 as stated: an opcode without table entry does not abort the sequence;
\* every operation of a whole-frame property holding such an opcode is still
\* decoded and a Panel is built.
C5_UnknownOpcodeDoesNotAbort ==
    \A name \in Names :
        (HasUnknown(name) /\ WellFormed(name) /\ Ended(name)) =>
            /\ Len(cmds[name]) = Len(frames[name])
            /\ ~(pc = "failed" /\ ~PanelExists)

\* C5 amended: an opcode without entry in the Transaction table aborts the
\* decode: Transaction(dtype) raises ValueError out of
\* CommandSequence.__init__, the operations behind it are not decoded, no
\* Panel is built and nothing is synthesized for the panel.
C5_UnknownOpcodeAborts ==
    \A name \in Names :
        HasUnknown(name) =>
            /\ ~PanelExists
            /\ files = {}
            /\ \A n \in Names : \A i \in 1..Len(cmds[n]) : cmds[n][i].generated = NoStatement
            /\ Len(cmds[name]) < FirstUnknown(frames[name])
            /\ (WellFormed(name) /\ Ended(name)) =>
                   /\ pc = "failed"
                   /\ err = "ValueError"
                   /\ Len(cmds[name]) = FirstUnknown(frames[name]) - 1

\* The second frame of the on property has an unknown opcode: the first was
\* decoded, then the decode raised ValueError.
C5_Witness ==
    /\ pc = "failed"
    /\ err = "ValueError"
    /\ cur = "on"
    /\ Len(frames["on"]) = 2
    /\ FirstUnknown(frames["on"]) = 2
    /\ Len(cmds["on"]) = 1

(* --------------------------------- C6 ---------------------------------- *)

Strategy(c) == Transaction[c.type].generate

\* generate_driver raised at command i of the sequence.
RaisedAt(name, i) == pc = "failed" /\ PanelExists /\ cur = name /\ gi = i

\* C6: a DCS write with an empty payload is unmatched and synthesized as the
\* raw write without bytes; synthesis never raises at it.
C6_EmptyDcsWriteUnmatched ==
    \A name \in Names : \A i \in 1..Len(cmds[name]) :
        LET c == cmds[name][i]
        IN  (Strategy(c) = "dcs_write" /\ c.payload = <<>>) =>
               /\ ~RaisedAt(name, i)
               /\ c.generated # NoStatement => IsRawDcsWrite(c.generated, <<>>)

(* --------------------------------- C7 ---------------------------------- *)

\* The first payload byte of c is a member of DCSCommand with declared
\* argument counts.
NamedWithArity(c) ==
    /\ Strategy(c) = "dcs_write"
    /\ c.payload # <<>>
    /\ c.payload[1] \in DOMAIN DCSCommand
    /\ DCSCommand[c.payload[1]].nargs # <<>>

\* The statement names the command: the checked call of its method, or the
\* raw write with MIPI_DCS_<NAME> as first literal.
IsMatch(s) ==
    \/ s.kind = "checked_call"
    \/ s.kind = "write_seq" /\ Len(s.args) >= 2 /\ s.args[2].k = "id"

ArityOk(c) == InTuple(Len(c.payload) - 1, DCSCommand[c.payload[1]].nargs)

CountWarning(c) ==
    Warning("incorrect argument count", DCSCommand[c.payload[1]].name, Len(c.payload) - 1)

\* C7 as stated: for a payload whose first byte is a named command with
\* declared arities, a wrong argument count gives "unmatched" with the
\* diagnostic and the raw write of all payload bytes; synthesis never raises
\* for such a payload and a match always has an argument count among the
\* arities.
C7_ArityMismatchWarnsAndDegrades ==
    \A i \in 1..Len(cmds["on"]) :
        LET c == cmds["on"][i]
        IN  NamedWithArity(c) =>
               /\ ~RaisedAt("on", i)
               /\ (c.generated # NoStatement /\ ~ArityOk(c)) =>
                      /\ IsRawDcsWrite(c.generated, c.payload)
                      /\ warnings = << CountWarning(c) >>
               /\ IsMatch(c.generated) => ArityOk(c)

\* C7 amended: as stated, except that the diagnostic is printed only when the
\* command passes the conservative-matching filter: with dumb_dcs set and a
\* command outside the allow-list the payload is unmatched without any
\* diagnostic, whatever its argument count.
C7_ArityMismatchDegrades ==
    \A i \in 1..Len(cmds["on"]) :
        LET c == cmds["on"][i]
        IN  NamedWithArity(c) =>
               /\ ~RaisedAt("on", i)
               /\ (c.generated # NoStatement /\ ~ArityOk(c)) =>
                      /\ IsRawDcsWrite(c.generated, c.payload)
                      /\ warnings = IF options.dumb_dcs /\ c.payload[1] \notin DUMB_ALLOWED
                                    THEN <<>>
                                    ELSE << CountWarning(c) >>
               /\ IsMatch(c.generated) => ArityOk(c)

\* SET_DISPLAY_BRIGHTNESS with three argument bytes in a DCS_LONG_WRITE was
\* synthesized as the raw write and the driver was written.
C7_Witness ==
    /\ pc = "done"
    /\ Len(cmds["on"]) = 1
    /\ cmds["on"][1].payload = <<81, 0, 2, 0>>
    /\ IsRawDcsWrite(cmds["on"][1].generated, <<81, 0, 2, 0>>)
    /\ warnings = << Warning("incorrect argument count", "SET_DISPLAY_BRIGHTNESS", 3) >>

(* --------------------------------- C8 ---------------------------------- *)

\* C8: a frame whose opcode is a member without synthesis strategy never
\* makes the decode raise: when the frame lies whole in the property it is
\* appended with its whole payload; the ValueError comes from generate_driver
\* when it reaches that command, and the command never gets a statement.
C8_UnsupportedRefusedAtSynthesisOnly ==
    \A name \in Names : \A i \in 1..Len(frames[name]) :
        LET f == frames[name][i]
        IN  (KnownOpcode(f) /\ Transaction[f.type].generate = "fallback") =>
               /\ ~(/\ pc = "failed"
                    /\ ~PanelExists
                    /\ cur = name
                    /\ Len(cmds[name]) = i - 1
                    /\ FrameEnd(frames[name], i) <= Len(props[name]))
               /\ i <= Len(cmds[name]) =>
                    /\ cmds[name][i].type = f.type
                    /\ cmds[name][i].payload = f.payload
                    /\ cmds[name][i].generated = NoStatement
                    /\ (pc \in {"commands", "failed"} /\ PanelExists /\ cur = name) => gi <= i

\* A DCS_READ was decoded into a Panel and generate_driver raised at it.
C8_Witness ==
    /\ pc = "failed"
    /\ PanelExists
    /\ err = "ValueError"
    /\ gi <= Len(cmds[cur])
    /\ cmds[cur][gi].type = 6

(* --------------------------------- C9 ---------------------------------- *)

HasUnsupported(name) ==
    \E i \in 1..Len(cmds[name]) : Strategy(cmds[name][i]) = "fallback"

\* C9: when any operation of the on or the off sequence of a Panel has an
\* opcode without synthesis strategy, generate_driver raises before it opens
\* the driver file: the driver file is never written, wherever the operation
\* stands and however many statements were synthesized before it.
C9_UnsupportedMeansNoDriver ==
    (\E name \in Names : HasUnsupported(name)) =>
        /\ "driver" \notin files
        /\ pc \notin {"dtsi", "done"}
        /\ (pc = "failed" /\ PanelExists) =>
               /\ gi <= Len(cmds[cur])
               /\ \A i \in 1..(gi - 1) : cmds[cur][i].generated # NoStatement

\* The off sequence holds the unsupported operation; the on sequence had been
\* synthesized when generate_driver raised.
C9_Witness ==
    /\ pc = "failed"
    /\ PanelExists
    /\ cur = "off"
    /\ HasUnsupported("off")
    /\ Len(cmds["on"]) = 1
    /\ cmds["on"][1].generated.kind = "checked_call"

(* --------------------------------- C10 --------------------------------- *)

\* The on property is the single frame of opcode t declared with payload
\* [0x29, 0x01]; there is no off command.
SingleDisplayOnWithByte(t) ==
    /\ Len(frames["on"]) = 1
    /\ frames["off"] = <<>>
    /\ cut = 0
    /\ frames["on"][1].type = t
    /\ frames["on"][1].payload = <<41, 1>>

ArgCountWarning == Warning("incorrect argument count", "SET_DISPLAY_ON", 1)

\* The statement of the single operation, once synthesized, is the raw write
\* of 0x29, 0x01 and the argument count diagnostic was printed.
RawWithDiagnostic ==
    /\ pc # "failed"
    /\ (Len(cmds["on"]) = 1 /\ cmds["on"][1].generated # NoStatement) =>
           /\ IsRawDcsWrite(cmds["on"][1].generated, <<41, 1>>)
           /\ warnings = << ArgCountWarning >>

\* C10 as stated: for opcode 0x05 and for opcode 0x15 the declared payload
\* [0x29, 0x01] is synthesized as the raw write of both bytes, with the
\* diagnostic.
C10_BothShortWritesRaw ==
    \A t \in {5, 21} : SingleDisplayOnWithByte(t) => RawWithDiagnostic

\* C10 amended: for opcode 0x15 (DCS_SHORT_WRITE_PARAM) the declared payload
\* [0x29, 0x01] is synthesized as the raw write of both bytes, with the
\* incorrect-argument-count diagnostic; for opcode 0x05 (DCS_SHORT_WRITE) the
\* payload is cut to [0x29] at decode and synthesized as the checked call
\* mipi_dsi_dcs_set_display_on(dsi), without diagnostic.
C10_ParamShortWriteRaw ==
    /\ SingleDisplayOnWithByte(21) => RawWithDiagnostic
    /\ SingleDisplayOnWithByte(5) =>
           /\ pc # "failed"
           /\ warnings = <<>>
           /\ (Len(cmds["on"]) = 1 /\ cmds["on"][1].generated # NoStatement) =>
                  cmds["on"][1].generated =
                      generate_checked_call("mipi_dsi_dcs_set_display_on", << Ident("dsi") >>,
                                            "SET_DISPLAY_ON")

\* The 0x15 frame has been synthesized.
C10_Witness ==
    /\ SingleDisplayOnWithByte(21)
    /\ pc = "done"
    /\ Len(cmds["on"]) = 1
    /\ IsRawDcsWrite(cmds["on"][1].generated, <<41, 1>>)
    /\ "driver" \in files

(* --------------------------------- C11 --------------------------------- *)

\* The on property is exactly one DCS_SHORT_WRITE frame with payload p and
\* wait byte w, and there is no off command.
SingleShortWrite(p, w) ==
    /\ Len(frames.on) = 1
    /\ frames.off = <<>>
    /\ frames.on[1].type = 5
    /\ frames.on[1].payload = p
    /\ frames.on[1].wait = w
    /\ cut = 0

\* The driver file is written.
Written == "driver" \in files

SetDisplayOnCall ==
    generate_checked_call("mipi_dsi_dcs_set_display_on", << Ident("dsi") >>, "SET_DISPLAY_ON")

\* C11: a single DCS_SHORT_WRITE with payload [0x29] and wait 0 never fails,
\* and the on function of the written driver is the checked call
\* mipi_dsi_dcs_set_display_on(dsi) with its error block and nothing after
\* it: no delay statement.
C11_DisplayOnCheckedCallNoDelay ==
    SingleShortWrite(<<41>>, 0) =>
        /\ pc # "failed"
        /\ Written => functions.on.lines = << Blank, SetDisplayOnCall >>

C11_Witness ==
    /\ SingleShortWrite(<<41>>, 0)
    /\ pc = "done"
    /\ Written
    /\ functions.on.lines = << Blank, SetDisplayOnCall >>
    /\ options.ignore_wait = 0

(* --------------------------------- C12 --------------------------------- *)

\* The first payload byte of c is a member of DCSCommand, the argument count
\* passes its check, and the member's codec raises ValueError on the
\* argument bytes.
CodecRejects(c) ==
    /\ Strategy(c) = "dcs_write"
    /\ c.payload # <<>>
    /\ c.payload[1] \in DOMAIN DCSCommand
    /\ LET dcs == DCSCommand[c.payload[1]]
       IN  /\ dcs.nargs = <<>> \/ InTuple(Len(c.payload) - 1, dcs.nargs)
           /\ DCS_codec(dcs, Tail(c.payload)).exc = "ValueError"

ArgsWarning(c) ==
    Warning("invalid arguments", DCSCommand[c.payload[1]].name, Len(c.payload) - 1)

\* C12 as stated: when the codec of a named command with a valid argument
\* count rejects the argument bytes, synthesis does not raise, the
\* diagnostic is printed and the statement is the raw write of the payload
\* bytes.
C12_CodecRejectWarnsAndDegrades ==
    \A i \in 1..Len(cmds["on"]) :
        LET c == cmds["on"][i]
        IN  CodecRejects(c) =>
               /\ ~RaisedAt("on", i)
               /\ c.generated # NoStatement =>
                      /\ IsRawDcsWrite(c.generated, c.payload)
                      /\ warnings = << ArgsWarning(c) >>

\* C12 amended: as stated, except that with dumb_dcs set and the command
\* outside the allow-list the codec is never run and no diagnostic is
\* printed.
C12_CodecRejectDegrades ==
    \A i \in 1..Len(cmds["on"]) :
        LET c == cmds["on"][i]
        IN  CodecRejects(c) =>
               /\ ~RaisedAt("on", i)
               /\ c.generated # NoStatement =>
                      /\ IsRawDcsWrite(c.generated, c.payload)
                      /\ warnings = IF options.dumb_dcs /\ c.payload[1] \notin DUMB_ALLOWED
                                    THEN <<>>
                                    ELSE << ArgsWarning(c) >>

\* SET_TEAR_ON with mode byte 2 in a DCS_SHORT_WRITE_PARAM was synthesized
\* as the raw write with the diagnostic, and the driver was written.
C12_Witness ==
    /\ pc = "done"
    /\ Len(cmds["on"]) = 1
    /\ cmds["on"][1].type = 21
    /\ cmds["on"][1].payload = <<53, 2>>
    /\ IsRawDcsWrite(cmds["on"][1].generated, <<53, 2>>)
    /\ warnings = << Warning("invalid arguments", "SET_TEAR_ON", 1) >>
    /\ Written

(* --------------------------------- C13 --------------------------------- *)

\* The four commands conservative matching lets through.
AlwaysSafe == {"ENTER_SLEEP_MODE", "EXIT_SLEEP_MODE", "SET_DISPLAY_ON", "SET_DISPLAY_OFF"}

\* C13: with dumb_dcs set, a synthesized DCS write names a command exactly
\* when its first byte is one of the four always-safe commands and its
\* argument count is the declared one; every other payload, whatever its
\* argument count and bytes, is the raw write of its bytes.
C13_DumbMatchesOnlyAlwaysSafe ==
    \A i \in 1..Len(cmds["on"]) :
        LET c == cmds["on"][i]
        IN  (options.dumb_dcs /\ Strategy(c) = "dcs_write" /\ c.generated # NoStatement) =>
               /\ IsMatch(c.generated) <=>
                      /\ c.payload[1] \in DOMAIN DCSCommand
                      /\ DCSCommand[c.payload[1]].name \in AlwaysSafe
                      /\ ArityOk(c)
               /\ ~IsMatch(c.generated) => IsRawDcsWrite(c.generated, c.payload)

\* With dumb_dcs set, SET_TEAR_ON with the valid mode byte 0 was synthesized
\* as the raw write, and the driver was written.
C13_Witness ==
    /\ pc = "done"
    /\ options.dumb_dcs
    /\ Len(cmds["on"]) = 1
    /\ cmds["on"][1].payload = <<53, 0>>
    /\ IsRawDcsWrite(cmds["on"][1].generated, <<53, 0>>)
    /\ warnings = <<>>
    /\ Written

(* ----------------------------- C14, C15, C16 --------------------------- *)

\* The on sequence is one synthesized command and its function is written.
OneWritten == Written /\ Len(cmds["on"]) = 1

\* The lines of the on function.
OnLines == functions.on.lines

IsDelay(l) == l.kind = "delay"

\* The on function has a delay statement.
HasDelay == \E j \in 1..Len(OnLines) : IsDelay(OnLines[j])

\* The on function ends with the command's statement and the delay d.
EndsWithDelay(d) ==
    /\ Len(OnLines) >= 2
    /\ OnLines[Len(OnLines) - 1] = cmds["on"][1].generated
    /\ OnLines[Len(OnLines)] = d

\* C14: every delay statement written for a command with wait w has w in
\* 1..255 and is msleep(w) when w >= 20, usleep_range(w * 1000,
\* w * 1000 + 1000) when w < 20; 19 gives usleep_range(19000, 20000) and 20
\* gives msleep(20).
C14_DelayRendering ==
    OneWritten =>
        LET w == cmds["on"][1].wait
        IN  \A j \in 1..Len(OnLines) :
                IsDelay(OnLines[j]) =>
                    /\ w \in 1..255
                    /\ w >= 20 => OnLines[j] = Delay("msleep", << w >>)
                    /\ w < 20 => OnLines[j] = Delay("usleep_range", << w * 1000, w * 1000 + 1000 >>)
                    /\ w = 19 => OnLines[j] = Delay("usleep_range", << 19000, 20000 >>)
                    /\ w = 20 => OnLines[j] = Delay("msleep", << 20 >>)

\* A command with wait 19 was written with usleep_range(19000, 20000).
C14_Witness ==
    /\ pc = "done"
    /\ OneWritten
    /\ cmds["on"][1].wait = 19
    /\ EndsWithDelay(Delay("usleep_range", << 19000, 20000 >>))

\* C15: a delay statement is written only for a wait > 0 that is not below
\* the threshold, and then right behind the command's statement; a wait
\* below the threshold never has one, a wait > 0 above the threshold always
\* has one; wait 120 has none with threshold 150 and msleep(120) with
\* threshold 50.
C15_DelayOnlyAboveThreshold ==
    OneWritten =>
        LET w == cmds["on"][1].wait
            t == options.ignore_wait
        IN  /\ HasDelay => (w > 0 /\ ~(w < t) /\ EndsWithDelay(msleep(w)))
            /\ w < t => ~HasDelay
            /\ (w > 0 /\ w > t) => HasDelay
            /\ (w = 120 /\ t = 150) => ~HasDelay
            /\ (w = 120 /\ t = 50) => EndsWithDelay(Delay("msleep", << 120 >>))

\* A command with wait 120 was written with msleep(120) under threshold 50.
C15_Witness ==
    /\ pc = "done"
    /\ OneWritten
    /\ cmds["on"][1].wait = 120
    /\ options.ignore_wait = 50
    /\ EndsWithDelay(Delay("msleep", << 120 >>))

\* C16: a command whose wait is > 0 and equal to the ignore-wait value is
\* written with its delay statement.
C16_EqualWaitStillDelayed ==
    OneWritten =>
        LET w == cmds["on"][1].wait
        IN  (w > 0 /\ w = options.ignore_wait) => EndsWithDelay(msleep(w))

(* ------------------------- C17, C18, C19, C20 -------------------------- *)

\* wrap.join has returned.
Joined == pc = "joined"

\* The statement on one line, as the caller would write it by hand.
OneLine ==
    join_args.prefix \o str_join(join_args.sep \o << Space >>, join_args.items) \o join_args.end

\* The one-line statement is within the budget.
Fits == width(OneLine) <= join_args.wrap

\* Positions of the line breaks of the returned text.
Breaks == { i \in 1..Len(join_ret) : join_ret[i] = Newline }

NumLines == Cardinality(Breaks) + 1

\* Position of the k-th line break; 0 for k = 0, one past the end for the
\* last line.
BreakAt(k) ==
    IF k = 0 THEN 0
    ELSE IF k > Cardinality(Breaks) THEN Len(join_ret) + 1
    ELSE CHOOSE i \in Breaks : Cardinality({ j \in Breaks : j <= i }) = k

\* The k-th line of the returned text.
Line(k) == SubSeq(join_ret, BreakAt(k - 1) + 1, BreakAt(k) - 1)

\* The white space a line starts with.
LeadingSpace(l) ==
    LET n == CHOOSE m \in 0..Len(l) :
                 /\ \A j \in 1..m : l[j] \in {Tab, Space}
                 /\ m < Len(l) => l[m + 1] \notin {Tab, Space}
    IN  SubSeq(l, 1, n)

\* The character that closes every item but the last: no item, prefix or
\* terminator of the inputs contains it.
SepMark == join_args.sep[Len(join_args.sep)]

\* Number of items on the lines 1..k of the returned text.
ItemsThrough(k) ==
    count(SubSeq(join_ret, 1, BreakAt(k) - 1), SepMark)
        + (IF k = NumLines /\ join_args.items # <<>> THEN 1 ELSE 0)

\* Number of items on line k.
ItemsOn(k) == ItemsThrough(k) - (IF k = 1 THEN 0 ELSE ItemsThrough(k - 1))

\* C17: when the one-line statement, tabs counted as 8 columns, is at most
\* wrap wide, join returns exactly that line, whatever the force index.
C17_FittingIsOneLine ==
    (Joined /\ Fits) => join_ret = OneLine

\* A statement of three items that fits was returned on one line although
\* a break was forced before its second item.
C17_Witness ==
    /\ Joined
    /\ Fits
    /\ Len(join_args.items) = 3
    /\ join_args.force = 1
    /\ join_args.prefix = << Tab, "f", "(" >>
    /\ join_ret = OneLine
    /\ NumLines = 1

\* The statement did not fit and went through the wrapping loop.
Wrapped == Joined /\ ~Fits

\* C18: in the wrapped case no returned line that holds two or more items
\* is wider than wrap columns.
C18_PackedLinesWithinBudget ==
    Wrapped =>
        \A k \in 1..NumLines : ItemsOn(k) >= 2 => width(Line(k)) <= join_args.wrap

\* C19: in the wrapped case every line after the first starts with white
\* space that is as wide, tabs counted as 8 columns, as the prefix of the
\* first line.
C19_ContinuationAlignedToPrefix ==
    Wrapped =>
        \A k \in 2..NumLines : width(LeadingSpace(Line(k))) = width(join_args.prefix)

\* A statement with the prefix 'ab<tab>', 10 columns wide, was returned on
\* three lines, the second and third starting with a tab and two spaces.
C19_Witness ==
    /\ Wrapped
    /\ join_args.prefix = << "a", "b", Tab >>
    /\ NumLines = 3
    /\ LeadingSpace(Line(2)) = << Tab, Space, Space >>
    /\ LeadingSpace(Line(3)) = << Tab, Space, Space >>

\* The call is one the two write strategies make.
IsWriteSeqJoin ==
    /\ join_args.prefix \in { macro_prefix("dsi_generic_write_seq"),
                              macro_prefix("dsi_dcs_write_seq") }
    /\ join_args.force = 2
    /\ join_args.wrap = DefaultWrap

\* C20: in the wrapped case with a force index k, 1 <= k < number of
\* items, some line ends right behind the first k items, so item k (counted
\* from 0) starts a line; the first line of a wrapped write macro is the
\* prefix, 'dsi' and the first payload literal.
C20_ForcedBreakBeforeItem ==
    (Wrapped /\ 1 <= join_args.force /\ join_args.force < Len(join_args.items)) =>
        /\ \E k \in 1..(NumLines - 1) : ItemsThrough(k) = join_args.force
        /\ IsWriteSeqJoin =>
               Line(1) = join_args.prefix \o join_args.items[1] \o join_args.sep
                             \o << Space >> \o join_args.items[2] \o join_args.sep

\* A wrapped dsi_generic_write_seq of ten payload bytes has 'dsi' and the
\* first literal on its first line, although the second literal would have
\* fitted behind them.
C20_Witness ==
    /\ Wrapped
    /\ IsWriteSeqJoin
    /\ join_args.prefix = macro_prefix("dsi_generic_write_seq")
    /\ Len(join_args.items) = 11
    /\ ItemsOn(1) = 2
    /\ width(Line(1)) + 1 + Len(join_args.items[3]) + Len(join_args.sep) <= join_args.wrap

(* --------------------------------- C21 --------------------------------- *)

\* Item i (counted from 1) is wider than what the budget leaves behind the
\* prefix.
WideItem(i) == Len(join_args.items[i]) > join_args.wrap - width(join_args.prefix)

\* The line of the returned text that holds item i.
LineOf(i) ==
    CHOOSE k \in 1..NumLines :
        ItemsThrough(k) >= i /\ (k = 1 \/ ItemsThrough(k - 1) < i)

\* Line k is its prefix or indent, item i whole and what closes the item.
HoldsOnly(k, i) ==
    LET lead == IF k = 1 THEN join_args.prefix ELSE LeadingSpace(Line(k))
    IN  Line(k) = lead \o join_args.items[i]
                       \o (IF i = Len(join_args.items) THEN join_args.end ELSE join_args.sep)

\* C21: an item wider than the budget left behind the prefix is returned
\* whole on a line that holds no other item.
C21_WideItemAlone ==
    Joined =>
        \A i \in 1..Len(join_args.items) :
            WideItem(i) => (ItemsOn(LineOf(i)) = 1 /\ HoldsOnly(LineOf(i), i))

\* With 2 columns left behind a tab, 'yyy' between two items 'x' was
\* returned on the middle one of three lines.
C21_Witness ==
    /\ Joined
    /\ join_args.prefix = << Tab >>
    /\ join_args.wrap = 10
    /\ join_args.items = << << "x" >>, << "y", "y", "y" >>, << "x" >> >>
    /\ join_args.sep = << "," >>
    /\ WideItem(2)
    /\ ~WideItem(1)
    /\ NumLines = 3
    /\ Line(2) = << Tab, "y", "y", "y", "," >>

(* --------------------------------- C22 --------------------------------- *)

\* The panel node an entry of outs was made of.
NodeOf(o) == run[o.at.f][o.at.p]

\* An entry of outs whose driver file was written.
WrittenOut(o) == o.exc = "None"

\* What the code makes of a panel node that is the first of a run: nothing
\* has touched the class attribute or options.gpios yet.
TextAlone(node) ==
    LET p == Panel_parse(node)
    IN  generate_driver([cmds |-> p.cmds, reset_seq |-> p.reset_seq], options, <<>>,
                        NoGpios)

\* C22: the text synthesized for a panel depends on the panel's properties
\* and the options only: two panels of a run with the same properties get
\* the same text (and the same failure), and a panel gets the text it would
\* get as the first panel of a run, whatever was processed before it.
C22_TextDependsOnInputOnly ==
    /\ \A i, j \in 1..Len(outs) :
          NodeOf(outs[i]) = NodeOf(outs[j])
              => outs[i].text = outs[j].text /\ outs[i].exc = outs[j].exc
    /\ \A i \in 1..Len(outs) :
          /\ outs[i].text = TextAlone(NodeOf(outs[i])).text
          /\ outs[i].exc = TextAlone(NodeOf(outs[i])).exc

\* A run has written three drivers: one with a checked call, then two for
\* panels with the same properties and raw writes only, whose functions
\* declare neither dev nor ret.
C22_Witness ==
    /\ Len(outs) = 3
    /\ \A i \in 1..3 : WrittenOut(outs[i])
    /\ outs[1].text.functions.on.variables = << "dsi", "dev", "ret" >>
    /\ NodeOf(outs[2]) = NodeOf(outs[3])
    /\ outs[3].text.functions.on.variables = << "dsi" >>
    /\ outs[3].text.functions.on.lines # <<>>
    /\ outs[3].text.reset_lines # <<>>

(* --------------------------------- C23 --------------------------------- *)

\* The frames the claim has the sequence hold: for on, those of the vendor
\* init property, of the on-command property and of the vendor display-on
\* property.
ChainedFrames(name) ==
    IF name = "on" THEN frames.init \o frames.on \o frames.display_on ELSE frames[name]

\* A line of a command function that is the statement of an operation.
IsStatement(l) == l.kind \notin {"blank", "delay"}

Statements(name) == SelectSeq(functions[name].lines, IsStatement)

\* The statement of a frame decoded and synthesized on its own.
StatementOf(f) ==
    LET t == Transaction[f.type]
    IN  Transaction_generate(t, truncate(t, f.payload, Len(f.payload)), options).text

\* The statements of the function are those of the frames fs, one each, in
\* that order, and they are the operations' in decode order.
StatementsAre(name, fs) ==
    /\ Len(cmds[name]) = Len(fs)
    /\ Len(Statements(name)) = Len(fs)
    /\ \A i \in 1..Len(fs) :
          /\ Carries(cmds[name][i], fs[i])
          /\ Statements(name)[i] = cmds[name][i].generated
          /\ Statements(name)[i] = StatementOf(fs[i])

\* C23 as stated: the statements of a generated function are those of the
\* sequence's operations in decode order, none dropped, duplicated or
\* reordered; the on function has the operations of the vendor init
\* property first, then those of the on-command property, then those of the
\* vendor display-on property.
C23_VendorBlocksInOrder ==
    Written => \A name \in Names : StatementsAre(name, ChainedFrames(name))

\* C23, amended: the same, provided the node has the on-command property;
\* without it the on sequence has no operation and the on function no
\* statement, whatever the vendor properties hold.
C23_VendorBlocksInOrderIfOnExists ==
    Written =>
        \A name \in Names :
            StatementsAre(name, IF name \in props.absent THEN <<>> ELSE ChainedFrames(name))

\* A driver is written for a node whose init property holds a raw write and
\* then a checked call, whose on-command holds the same two the other way
\* round and whose display-on property holds one more call: five statements.
C23_Witness ==
    /\ Written
    /\ props.absent = {}
    /\ Len(frames.init) = 2 /\ frames.init[1].type = 57 /\ frames.init[2].type = 5
    /\ Len(frames.on) = 2 /\ frames.on[1].type = 5 /\ frames.on[2].type = 57
    /\ Len(frames.display_on) = 1 /\ frames.display_on[1].type = 5
    /\ Len(Statements("on")) = 5
    /\ Statements("on")[1].kind = "write_seq"
    /\ Statements("on")[2].kind = "checked_call"

(* --------------------------------- C24 --------------------------------- *)

\* The operations that have their statement.
Synthesized ==
    { c \in UNION { { cmds[name][i] : i \in 1..Len(cmds[name]) } : name \in Names } :
        c.generated # NoStatement }

\* What DCSCommand.find made of the operation's payload.
Found(c) == DCSCommand_find(c.payload, options.dumb_dcs)

\* s is the macro call fn(dsi, first, <rest in hex>).
IsWriteSeq(s, fn, first, rest) ==
    /\ s.kind = "write_seq"
    /\ s.fn = fn
    /\ Len(s.args) = Len(rest) + 2
    /\ s.args[1] = Ident("dsi")
    /\ s.args[2] = first
    /\ IsHexOf(SubSeq(s.args, 3, Len(s.args)), rest)

\* C24: a generic write is dsi_generic_write_seq(dsi, <bytes in hex>)
\* whatever its first byte; a DCS write that matches a command with a
\* method is the checked call of that method on dsi; one that matches a
\* command without method is dsi_dcs_write_seq with MIPI_DCS_<NAME> for the
\* first byte and the other bytes in hex; an unmatched DCS write is
\* dsi_dcs_write_seq with every byte in hex.
C24_DispatchByOpcodeFamily ==
    \A c \in Synthesized :
        LET s == c.generated
        IN  /\ Strategy(c) = "generic_write" =>
                /\ s.kind = "write_seq"
                /\ s.fn = "dsi_generic_write_seq"
                /\ s.args # <<>> /\ s.args[1] = Ident("dsi")
                /\ IsHexOf(Tail(s.args), c.payload)
            /\ Strategy(c) = "dcs_write" /\ Found(c).found
                                        /\ DCSCommand[Found(c).dcs].method # "" =>
                /\ s.kind = "checked_call"
                /\ s.fn = DCSCommand[c.payload[1]].method
                /\ s.subject = DCSCommand[c.payload[1]].name
                /\ s.args # <<>> /\ s.args[1] = Ident("dsi")
            /\ Strategy(c) = "dcs_write" /\ Found(c).found
                                        /\ DCSCommand[Found(c).dcs].method = "" =>
                IsWriteSeq(s, "dsi_dcs_write_seq",
                           Ident("MIPI_DCS_" \o DCSCommand[c.payload[1]].name), Tail(c.payload))
            /\ Strategy(c) = "dcs_write" /\ ~Found(c).found =>
                IsRawDcsWrite(s, c.payload)

\* A generic long write of 0x29 (the byte of SET_DISPLAY_ON) and one
\* argument has its statement, with 0x29 in hex.
C24_Witness ==
    /\ Written
    /\ Len(cmds["on"]) = 1
    /\ cmds["on"][1].type = 41
    /\ cmds["on"][1].payload = << 41, 1 >>
    /\ cmds["on"][1].generated.args = << Ident("dsi"), hex_fill(41, 1), hex_fill(1, 1) >>

(* --------------------------------- C25 --------------------------------- *)

\* The line of the function that is the statement of operation i.
StatementAt(name, i) ==
    LET lines == functions[name].lines
    IN  CHOOSE k \in 1..Len(lines) :
            /\ IsStatement(lines[k])
            /\ Cardinality({ j \in 1..k : IsStatement(lines[j]) }) = i

\* An empty line stands right before the statement of operation i.
BlankBefore(name, i) ==
    LET k == StatementAt(name, i)
    IN  k > 1 /\ functions[name].lines[k - 1] = Blank

\* The statement of operation i is the block of a checked call.
IsBlock(name, i) == cmds[name][i].generated.kind = "checked_call"

\* C25: in a command function an empty line stands before the statement
\* of an operation exactly when it is the first statement, or it is a
\* checked-call block, or the statement of the operation before is one; so
\* none stands between two writes that follow each other, with or without
\* a delay between them.
C25_BlankLineGrouping ==
    Written =>
        \A name \in Names :
            /\ Len(Statements(name)) = Len(cmds[name])
            /\ \A i \in 1..Len(cmds[name]) :
                  BlankBefore(name, i)
                      <=> (i = 1 \/ IsBlock(name, i) \/ IsBlock(name, i - 1))

\* The on function has two writes with a delay and no empty line between
\* them, then a checked call with an empty line before and behind it, then
\* a write.
C25_Witness ==
    /\ Written
    /\ Len(cmds["on"]) = 4
    /\ LET l == functions["on"].lines
       IN  /\ Len(l) = 10
           /\ l[1] = Blank
           /\ l[2].kind = "write_seq" /\ l[3].kind = "delay" /\ l[4].kind = "write_seq"
           /\ l[5].kind = "delay"
           /\ l[6] = Blank /\ l[7].kind = "checked_call" /\ l[8] = Blank
           /\ l[9].kind = "write_seq"

(* --------------------------------- C26 --------------------------------- *)

\* The run is over: the loops are through, or an exception has left the
\* program.
RunOver == pc \in {"exit", "crashed"}

\* Panel p of device tree f was processed: its driver written, or its
\* failure caught and reported.
Processed(f, p) == \E i \in 1..Len(outs) : outs[i].at = [f |-> f, p |-> p]

MatchedCalls ==
    { c \in Synthesized : Strategy(c) = "dcs_write" /\ c.generated.kind = "checked_call" }

\* The literals the codec made of the argument bytes (behind dsi).
CodecLiterals(c) == Tail(c.generated.args)

\* The argument bytes of the payload.
ArgBytes(c) == Tail(c.payload)

\* A literal that prints the 16-bit number v.
Is16Bit(l, v) == l.k = "hex" /\ l.size = 2 /\ l.v = v

\* The bytes a literal stands for: a number of size bytes in the given
\* byte order, or the value of the tear mode it names.
BytesOfLiteral(l, byteorder) ==
    IF l.k = "id"
    THEN << CHOOSE v \in DOMAIN TearMode : l.name = "MIPI_DSI_DCS_TEAR_MODE_" \o TearMode[v] >>
    ELSE IF l.size = 1 THEN << l.v >>
    ELSE IF byteorder = "big" THEN << l.v \div 256, l.v % 256 >>
    ELSE << l.v % 256, l.v \div 256 >>

RECURSIVE BytesOfLiterals(_, _)
BytesOfLiterals(ls, byteorder) ==
    IF ls = <<>> THEN <<>>
    ELSE BytesOfLiteral(Head(ls), byteorder) \o BytesOfLiterals(Tail(ls), byteorder)

\* The byte order of the codec of the command.
OrderOf(c) == IF DCSCommand[c.payload[1]].codec = "int2little" THEN "little" ELSE "big"

\* No argument byte is lost: the literals give the argument bytes back, at
\* most padded with a zero byte to the width of the last literal.
NothingDropped(c) ==
    LET back == BytesOfLiterals(CodecLiterals(c), OrderOf(c))
        args == ArgBytes(c)
    IN  /\ Len(back) >= Len(args)
        /\ SubSeq(back, 1, Len(args)) = args
        /\ \A j \in (Len(args) + 1)..Len(back) : back[j] = 0

\* C27: SET_COLUMN_ADDRESS and SET_PAGE_ADDRESS with argument bytes a, b,
\* c, d have the two 16-bit literals a*256+b and c*256+d;
\* SET_TEAR_SCANLINE has one 16-bit literal, big-endian;
\* SET_DISPLAY_BRIGHTNESS has one literal, the little-endian value of its
\* one or two bytes; SET_TEAR_ON has the name of the tear mode; and for
\* every matched command the literals hold every argument byte.
C27_CodecLiterals ==
    \A c \in MatchedCalls :
        LET l == CodecLiterals(c)
            a == ArgBytes(c)
            n == DCSCommand[c.payload[1]].name
        IN  /\ n \in {"SET_COLUMN_ADDRESS", "SET_PAGE_ADDRESS"} =>
                /\ Len(a) = 4 /\ Len(l) = 2
                /\ Is16Bit(l[1], a[1] * 256 + a[2])
                /\ Is16Bit(l[2], a[3] * 256 + a[4])
            /\ n = "SET_TEAR_SCANLINE" =>
                Len(a) = 2 /\ Len(l) = 1 /\ Is16Bit(l[1], a[1] * 256 + a[2])
            /\ n = "SET_DISPLAY_BRIGHTNESS" =>
                /\ Len(a) \in {1, 2} /\ Len(l) = 1
                /\ l[1].k = "hex"
                /\ l[1].v = a[1] + (IF Len(a) = 2 THEN a[2] * 256 ELSE 0)
            /\ n = "SET_TEAR_ON" =>
                /\ Len(a) = 1 /\ Len(l) = 1
                /\ l[1] = Ident("MIPI_DSI_DCS_TEAR_MODE_"
                                \o (IF a[1] = 0 THEN "VBLANK" ELSE "VHBLANK"))
            /\ NothingDropped(c)

\* SET_PAGE_ADDRESS 00 01 ff 00 is the call with the literals 0x0001 and
\* 0xff00.
C27_Witness ==
    /\ Written
    /\ Len(cmds["on"]) = 1
    /\ cmds["on"][1].payload = << 43, 0, 1, 255, 0 >>
    /\ cmds["on"][1] \in MatchedCalls
    /\ CodecLiterals(cmds["on"][1]) = << hex_fill(1, 2), hex_fill(65280, 2) >>

(* --------------------------------- C28 --------------------------------- *)

\* The function declares the local variable v.
Declares(name, v) ==
    \E j \in 1..Len(functions[name].variables) : functions[name].variables[j] = v

\* An operation of the sequence was synthesized as a checked call.
HasCheckedCall(name) == \E i \in 1..Len(cmds[name]) : IsBlock(name, i)

\* The statements of the function use ret and dev: only the checked call
\* does.
UsesRetAndDev(name) ==
    \E k \in 1..Len(functions[name].lines) : functions[name].lines[k].kind = "checked_call"

\* C28: a command function declares ret and dev exactly when an operation
\* of its sequence was synthesized as a checked call, that is, exactly
\* when its body uses them.
C28_DeclaresRetAndDevIffCheckedCall ==
    Written =>
        \A name \in Names :
            /\ Declares(name, "ret") <=> HasCheckedCall(name)
            /\ Declares(name, "dev") <=> HasCheckedCall(name)
            /\ HasCheckedCall(name) <=> UsesRetAndDev(name)

\* The on function has a write and then a checked call and declares both;
\* the off function has no operation and declares dsi only.
C28_Witness ==
    /\ Written
    /\ Len(cmds["on"]) = 2
    /\ ~IsBlock("on", 1) /\ IsBlock("on", 2)
    /\ functions["on"].variables = << "dsi", "dev", "ret" >>
    /\ cmds["off"] = <<>>
    /\ functions["off"].variables = << "dsi" >>

(* --------------------------------- C29 --------------------------------- *)

\* The indent of the continuation lines.
Indent == indent_of(width(join_args.prefix))

StartsWith(l, p) == Len(l) >= Len(p) /\ SubSeq(l, 1, Len(p)) = p

EndsWith(l, p) == Len(l) >= Len(p) /\ SubSeq(l, Len(l) - Len(p) + 1, Len(l)) = p

\* The lines from the k-th on, each with a space for its line break and
\* indent.
RECURSIVE UnwrapFrom(_)
UnwrapFrom(k) ==
    IF k > NumLines THEN <<>>
    ELSE << Space >> \o SubSeq(Line(k), Len(Indent) + 1, Len(Line(k))) \o UnwrapFrom(k + 1)

\* The returned text with every line break and continuation indent
\* replaced by one space.
Unwrapped == Line(1) \o UnwrapFrom(2)

\* C29: join keeps the content: every continuation line starts with the
\* indent, the returned text with each line break and indent replaced by a
\* space is prefix + items joined by sep and a space + end, and it ends
\* with the terminator; for every item list, the empty one included.
C29_JoinKeepsContent ==
    Joined =>
        /\ \A k \in 2..NumLines : StartsWith(Line(k), Indent)
        /\ Unwrapped = OneLine
        /\ EndsWith(join_ret, join_args.end)

(* --------------------------------- C30 --------------------------------- *)

\* The values the reset function writes to the pin, in order.
IsSetValue(l) == l.kind = "set_value"

ValuesWritten == [i \in 1..Len(SelectSeq(reset_lines, IsSetValue)) |->
                    SelectSeq(reset_lines, IsSetValue)[i].args[1]]

\* Every pin state of the reset sequence is a level.
LevelsOnly == \A i \in 1..Len(reset_seq) : reset_seq[i][1] \in {0, 1}

ActiveLow == gpios["reset"] = ACTIVE_LOW

\* C30: for a reset sequence that is not empty and whose pin states are 0
\* or 1, the pin is marked active low exactly when the last state is 1,
\* every value written is the state, inverted exactly when the pin is
\* active low, and the last value written is 0.
C30_ResetPolarity ==
    Written /\ reset_seq # <<>> /\ LevelsOnly =>
        /\ "reset" \in DOMAIN gpios
        /\ ActiveLow <=> reset_seq[Len(reset_seq)][1] = 1
        /\ Len(ValuesWritten) = Len(reset_seq)
        /\ \A i \in 1..Len(reset_seq) :
              ValuesWritten[i] = IF ActiveLow THEN 1 - reset_seq[i][1] ELSE reset_seq[i][1]
        /\ ValuesWritten[Len(ValuesWritten)] = 0

\* The sequence 1 (20 ms), 0, 1 (20 ms) of an active-low pin is written as
\* 0, msleep(20), 1, 0, msleep(20).
C30_Witness ==
    /\ Written
    /\ reset_seq = << << 1, 20 >>, << 0, 0 >>, << 1, 20 >> >>
    /\ ActiveLow
    /\ ValuesWritten = << 0, 1, 0 >>
    /\ Len(reset_lines) = 5
    /\ reset_lines[2] = Delay("msleep", << 20 >>)
====
